---- MODULE Spec2Model ----
(***************************************************************************)
(* Paper trading engine of backend/src/services/paperTrader.js (the        *)
(* three-wallet engine, source lines 275-872): tick -> checkDaily ->       *)
(* pushBuf -> maybeExit -> maybeEnter -> scheduleSave, with updateConfig,  *)
(* hardReset and the debounced save timer.                                 *)
(*                                                                         *)
(* Fixed-point units (the engine computes in float64; every quotient is    *)
(* truncated toward minus infinity at the unit below):                     *)
(*   money            cents                  (100000 USD = 10000000)       *)
(*   rates, pct, edge 1e-5  ("pcm")          (0.0026 = 260, 0.25 = 25000)  *)
(*   SPREAD_BP, SLIPPAGE_BP basis points     (as in the source)            *)
(*   volNorm, conf    1e-3                   (0.55 = 550, 0.85 = 850)      *)
(*   time             ms since local midnight of the model's day 0         *)
(*   qty              the exact quotient usdNotional / price, kept as the  *)
(*                    pair [num, den]                                      *)
(***************************************************************************)
EXTENDS Integers, Sequences, FiniteSets, TLC

(* ------------------------------ bounds -------------------------------- *)

\* number of engine events (tick, updateConfig, hardReset, save timer) explored
MaxSteps == 4

(* ---------------------- ENV DEFAULTS (source 283-321) ------------------ *)

START_TRADING_WALLET == 10000000
START_STOREHOUSE_WALLET == 10000000
START_OWNER_WALLET == 0
WARMUP_TICKS == 250
BASE_RISK_PCT == 3000
MAX_RISK_PCT == 50000
TAKE_PROFIT_PCT == 400
STOP_LOSS_PCT == 300
MIN_EDGE == 70
FEE_RATE == 260
SLIPPAGE_BP == 8
SPREAD_BP == 6
COOLDOWN_MS == 12000
MAX_USD_PER_TRADE == 30000
MAX_TRADES_PER_DAY_DEFAULT == 40
MAX_DRAWDOWN_PCT == 25000
MIN_USD_PER_TRADE == 5000
MIN_NET_TP_USD == 100
TOPUP_AMOUNT == 100000
TOPUP_TRIGGER == 10000
TRADING_WALLET_CAP_DEFAULT == 15000000
STATE_FILE == "/tmp/paper_state.json"

\* length of one calendar day, the granularity of dayKey
DAY_MS == 86400000
\* pushBuf keeps the last 60 prices; computeSignals needs 10 of them
BUF_MAX == 60
BUF_MIN == 10
\* tick trims the trade log to its last 1500 records once it exceeds 4000
TRADES_TRIM_AT == 4000
TRADES_KEEP == 1500
\* saveNow persists the last 800 trade records
TRADES_SAVED == 800

Symbols == {"BTCUSDT", "ETHUSDT"}

NULL == [symbol |-> "null"]
NO_REASON == [tag |-> "null"]

(* ------------------------------ HELPERS -------------------------------- *)

Min(a, b) == IF a <= b THEN a ELSE b
Max(a, b) == IF a >= b THEN a ELSE b
Abs(a) == IF a < 0 THEN -a ELSE a

\* floor(a * b / d) for a >= 0, d > 0, without forming a * b
MulDiv(a, b, d) == (a \div d) * b + ((a % d) * b) \div d

clamp(n, a, b) == Max(a, Min(b, n))

dayKey(ts) == ts \div DAY_MS

RECURSIVE SumSeq(_)
SumSeq(arr) == IF arr = <<>> THEN 0 ELSE Head(arr) + SumSeq(Tail(arr))

\* mean of arr in units of 1/scale
mean(arr, scale) ==
  IF Len(arr) > 0 THEN (SumSeq(arr) * scale) \div Len(arr) ELSE 0

RECURSIVE SqrtIter(_, _, _)
SqrtIter(v, lo, hi) ==
  IF lo >= hi THEN lo
  ELSE LET mid == (lo + hi + 1) \div 2
       IN  IF mid * mid <= v THEN SqrtIter(v, mid, hi)
                             ELSE SqrtIter(v, lo, mid - 1)

std(arr) ==
  IF Len(arr) < 2 THEN 0
  ELSE LET m == mean(arr, 1)
           v == mean([i \in 1..Len(arr) |-> (arr[i] - m) * (arr[i] - m)], 1)
       IN  SqrtIter(v, 0, Min(v, 46340))

\* Last(arr, n) is arr.slice(-n)
Last(arr, n) ==
  IF Len(arr) <= n THEN arr ELSE SubSeq(arr, Len(arr) - n + 1, Len(arr))

\* { ...base, ...over }
Merge(base, over) ==
  [k \in (DOMAIN base) \cup (DOMAIN over) |->
     IF k \in DOMAIN over THEN over[k] ELSE base[k]]

(* ------------------------------- STATE --------------------------------- *)

defaultConfig ==
  [WARMUP_TICKS |-> WARMUP_TICKS,
   BASE_RISK_PCT |-> BASE_RISK_PCT,
   MAX_RISK_PCT |-> MAX_RISK_PCT,
   TAKE_PROFIT_PCT |-> TAKE_PROFIT_PCT,
   STOP_LOSS_PCT |-> STOP_LOSS_PCT,
   MIN_EDGE |-> MIN_EDGE,
   FEE_RATE |-> FEE_RATE,
   SLIPPAGE_BP |-> SLIPPAGE_BP,
   SPREAD_BP |-> SPREAD_BP,
   COOLDOWN_MS |-> COOLDOWN_MS,
   MAX_USD_PER_TRADE |-> MAX_USD_PER_TRADE,
   MAX_TRADES_PER_DAY |-> MAX_TRADES_PER_DAY_DEFAULT,
   MAX_DRAWDOWN_PCT |-> MAX_DRAWDOWN_PCT,
   MIN_USD_PER_TRADE |-> MIN_USD_PER_TRADE,
   MIN_NET_TP_USD |-> MIN_NET_TP_USD,
   TOPUP_AMOUNT |-> TOPUP_AMOUNT,
   TOPUP_TRIGGER |-> TOPUP_TRIGGER,
   TRADING_WALLET_CAP |-> TRADING_WALLET_CAP_DEFAULT,
   STATE_FILE |-> STATE_FILE]

\* defaultState() evaluated when the wall clock reads nowMs
defaultState(nowMs) ==
  [running |-> TRUE,
   wallets |-> [trading |-> START_TRADING_WALLET,
                storehouse |-> START_STOREHOUSE_WALLET,
                owner |-> START_OWNER_WALLET],
   startBalance |-> START_TRADING_WALLET,
   pnl |-> 0,
   realized |-> [wins |-> 0, losses |-> 0, grossProfit |-> 0,
                 grossLoss |-> 0, net |-> 0],
   costs |-> [feePaid |-> 0, slippageCost |-> 0, spreadCost |-> 0],
   trades |-> <<>>,
   position |-> NULL,
   lastPriceBySymbol |-> [s \in {} |-> 0],
   learnStats |-> [ticksSeen |-> 0, confidence |-> 0, volatility |-> 0,
                   trendEdge |-> 0, decision |-> "WAIT",
                   lastReason |-> [tag |-> "boot"], lastTickTs |-> 0],
   config |-> defaultConfig,
   limits |-> [tradesToday |-> 0, dayKey |-> dayKey(nowMs),
               lastTradeTs |-> 0, halted |-> FALSE, haltReason |-> NO_REASON],
   streak |-> [winsInRow |-> 0, lossesInRow |-> 0],
   buf |-> [s \in Symbols |-> <<>>]]

(* ------------------------------ SIGNALS -------------------------------- *)

\* faulty variant: a full buffer drops the new price instead of the oldest
pushBuf_keepsOldest(s, symbol, price) ==
  LET b == IF symbol \in DOMAIN s.buf THEN s.buf[symbol] ELSE <<>>
  IN  [s EXCEPT !.buf = Merge(s.buf, [k \in {symbol} |->
                                        SubSeq(Append(b, price), 1, Min(Len(b) + 1, BUF_MAX))])]

pushBuf(s, symbol, price) ==
  LET b == IF symbol \in DOMAIN s.buf THEN s.buf[symbol] ELSE <<>>
  IN  [s EXCEPT !.buf = Merge(s.buf, [k \in {symbol} |-> Last(Append(b, price), BUF_MAX)])]

computeSignals(s, symbol) ==
  LET b == IF symbol \in DOMAIN s.buf THEN s.buf[symbol] ELSE <<>>
      n == Len(b)
  IN  IF n < BUF_MIN
      THEN [vol |-> 0, edge |-> 0, conf |-> 0, reason |-> [tag |-> "collecting_more_data"]]
      ELSE
        LET returns == [i \in 1..(n - 1) |-> ((b[i + 1] - b[i]) * 100000) \div b[i]]
            vol == std(returns)
            volNorm == clamp((vol * 1000) \div 200, 0, 1000)
            early == mean(SubSeq(b, 1, n \div 3), 100)
            late == mean(SubSeq(b, ((2 * n) \div 3) + 1, n), 100)
            edge == ((late - early) * 100000) \div (IF early = 0 THEN 100 ELSE early)
            warm == s.config.WARMUP_TICKS
            ticksFactor == IF warm > 0
                           THEN clamp((s.learnStats.ticksSeen * 1000) \div warm, 0, 1000)
                           ELSE 1000
            trendFactor == IF s.config.MIN_EDGE > 0
                           THEN clamp((Abs(edge) * 1000) \div (s.config.MIN_EDGE * 2), 0, 1000)
                           ELSE 1000
            noisePenalty == 1000 - (volNorm * 7) \div 10
            conf == (clamp((ticksFactor * 55 + trendFactor * 55) \div 100, 0, 1000)
                     * clamp(noisePenalty, 200, 1000)) \div 1000
            warmedUp == s.learnStats.ticksSeen >= warm
            reason == IF warmedUp /\ Abs(edge) < s.config.MIN_EDGE THEN "trend_unclear"
                      ELSE IF warmedUp /\ volNorm > 850 THEN "too_noisy"
                      ELSE IF warmedUp THEN "edge_detected"
                      ELSE "warmup"
        IN  [vol |-> volNorm, edge |-> edge, conf |-> conf, reason |-> [tag |-> reason]]

(* ----------------------------- COST MODEL ------------------------------ *)

entryCostRate(s) ==
  s.config.FEE_RATE + s.config.SPREAD_BP * 10 + s.config.SLIPPAGE_BP * 10

totalRoundTripCostRate(s) ==
  2 * s.config.FEE_RATE + s.config.SPREAD_BP * 10 + s.config.SLIPPAGE_BP * 10

\* faulty variant: the spread is not charged
entryCostParts_noSpread(s, usdNotional) ==
  [fee |-> MulDiv(usdNotional, s.config.FEE_RATE, 100000),
   spreadCost |-> 0,
   slippageCost |-> MulDiv(usdNotional, s.config.SLIPPAGE_BP, 10000)]

\* the three entry cost components of a notional
entryCostParts(s, usdNotional) ==
  [fee |-> MulDiv(usdNotional, s.config.FEE_RATE, 100000),
   spreadCost |-> MulDiv(usdNotional, s.config.SPREAD_BP, 10000),
   slippageCost |-> MulDiv(usdNotional, s.config.SLIPPAGE_BP, 10000)]

\* returns the state with the cost totals raised, and the sum charged
applyEntryCosts(s, usdNotional) ==
  LET c == entryCostParts(s, usdNotional)
  IN  [state |-> [s EXCEPT !.costs.feePaid = @ + c.fee,
                           !.costs.spreadCost = @ + c.spreadCost,
                           !.costs.slippageCost = @ + c.slippageCost],
       total |-> c.fee + c.spreadCost + c.slippageCost]

applyExitFee(s, usdNotional) ==
  LET fee == MulDiv(usdNotional, s.config.FEE_RATE, 100000)
  IN  [state |-> [s EXCEPT !.costs.feePaid = @ + fee], total |-> fee]

(* ---------------------------- WALLET RULES ----------------------------- *)

\* faulty variant: the overflow leaves the trading wallet and reaches no wallet
sweepOverflow_notCredited(s, nowMs) ==
  LET cap == s.config.TRADING_WALLET_CAP
      trading == s.wallets.trading
  IN  IF cap <= 0 THEN s
      ELSE IF trading > cap
      THEN [s EXCEPT !.wallets.trading = @ - (trading - cap),
                     !.trades = Append(@, [time |-> nowMs, symbol |-> "WALLET",
                                           type |-> "SWEEP", price |-> 0,
                                           qty |-> [num |-> 0, den |-> 1],
                                           usd |-> trading - cap,
                                           note |-> [tag |-> "overflow_to_owner_wallet"]])]
      ELSE s

sweepOverflow(s, nowMs) ==
  LET cap == s.config.TRADING_WALLET_CAP
      trading == s.wallets.trading
  IN  IF cap <= 0 THEN s
      ELSE IF trading > cap
      THEN [s EXCEPT !.wallets.trading = @ - (trading - cap),
                     !.wallets.owner = @ + (trading - cap),
                     !.trades = Append(@, [time |-> nowMs, symbol |-> "WALLET",
                                           type |-> "SWEEP", price |-> 0,
                                           qty |-> [num |-> 0, den |-> 1],
                                           usd |-> trading - cap,
                                           note |-> [tag |-> "overflow_to_owner_wallet"]])]
      ELSE s

maybeTopUpFromStorehouse(s, nowMs) ==
  LET amt == Min(s.config.TOPUP_AMOUNT, s.wallets.storehouse)
  IN  IF s.wallets.trading > s.config.TOPUP_TRIGGER THEN s
      ELSE IF s.wallets.storehouse <= 0 THEN s
      ELSE IF amt <= 0 THEN s
      ELSE [s EXCEPT !.wallets.storehouse = @ - amt,
                     !.wallets.trading = @ + amt,
                     !.trades = Append(@, [time |-> nowMs, symbol |-> "WALLET",
                                           type |-> "TOPUP", price |-> 0,
                                           qty |-> [num |-> 0, den |-> 1],
                                           usd |-> amt,
                                           note |-> [tag |-> "storehouse_to_trading_wallet"]])]

(* ------------------------------- LIMITS -------------------------------- *)

\* faulty variant: the day rollover also lifts the halt
checkDaily_liftsHalt(s, ts) ==
  IF s.limits.dayKey # dayKey(ts)
  THEN [s EXCEPT !.limits.dayKey = dayKey(ts), !.limits.tradesToday = 0,
                 !.limits.halted = FALSE, !.limits.haltReason = NO_REASON]
  ELSE s

\* faulty variant: the day rollover moves dayKey but keeps the count
checkDaily_keepsCount(s, ts) ==
  IF s.limits.dayKey # dayKey(ts)
  THEN [s EXCEPT !.limits.dayKey = dayKey(ts)]
  ELSE s

\* faulty variant: the count is reset on every tick, not only when the day changes
checkDaily_everyTick(s, ts) ==
  [s EXCEPT !.limits.dayKey = dayKey(ts), !.limits.tradesToday = 0]

checkDaily(s, ts) ==
  IF s.limits.dayKey # dayKey(ts)
  THEN [s EXCEPT !.limits.dayKey = dayKey(ts), !.limits.tradesToday = 0]
  ELSE s

\* (peak - trading) / peak >= MAX_DRAWDOWN_PCT, compared without rounding:
\* the smallest loss in cents that reaches the threshold is ceil(peak * pct)
drawdownReached(s) ==
  LET peak == s.startBalance
      pct == s.config.MAX_DRAWDOWN_PCT
      lo == MulDiv(peak, pct, 100000)
      exact == ((peak % 100000) * pct) % 100000 = 0
  IN  (peak - s.wallets.trading) >= (IF exact THEN lo ELSE lo + 1)

checkDrawdown(s) ==
  IF drawdownReached(s)
  THEN [s EXCEPT !.limits.halted = TRUE,
                 !.limits.haltReason =
                    [tag |-> "max_drawdown_",
                     pct |-> (s.config.MAX_DRAWDOWN_PCT + 500) \div 1000]]
  ELSE s

canTradeProfitablyAtTP(s) ==
  s.config.TAKE_PROFIT_PCT > totalRoundTripCostRate(s)

(* --------------------------- PERCENT SIZING ---------------------------- *)

\* faulty variant: losses do not reduce the risk
currentRiskPct_noPenalty(s) ==
  clamp(s.config.BASE_RISK_PCT
          + Min(1000 * s.streak.winsInRow, s.config.MAX_RISK_PCT - s.config.BASE_RISK_PCT),
        500, s.config.MAX_RISK_PCT)

currentRiskPct(s) ==
  LET base == s.config.BASE_RISK_PCT
      max == s.config.MAX_RISK_PCT
      lossPenalty == Min(2000 * s.streak.lossesInRow, (base * 8) \div 10)
      winBoost == Min(1000 * s.streak.winsInRow, max - base)
  IN  clamp(base - lossPenalty + winBoost, 500, max)

(* --------------------------- TRADING LOGIC ----------------------------- *)

\* the admission checks of maybeEnter, in source order
\* faulty variant: the position-open check is dropped
positionOpen_never(s) == FALSE

positionOpen(s) == s.position # NULL

\* faulty variant: the warm-up gate is dropped
warmingUp_never(s) == FALSE

warmingUp(s) == s.learnStats.ticksSeen < s.config.WARMUP_TICKS

\* Date.now() - (lastTradeTs || 0) < COOLDOWN_MS
inCooldown(s, nowMs) == nowMs - s.limits.lastTradeTs < s.config.COOLDOWN_MS

\* faulty variant: off by one, the cap admits one more trade
dailyCapReached_offByOne(s) == s.limits.tradesToday > s.config.MAX_TRADES_PER_DAY

dailyCapReached(s) == s.limits.tradesToday >= s.config.MAX_TRADES_PER_DAY

\* wallets.trading * currentRiskPct(), raised to MIN_USD_PER_TRADE, cut to MAX_USD_PER_TRADE
sizeNotional(s) ==
  Min(Max(MulDiv(s.wallets.trading, currentRiskPct(s), 100000),
          s.config.MIN_USD_PER_TRADE),
      s.config.MAX_USD_PER_TRADE)

\* faulty variant: the expected profit at take-profit ignores the round-trip costs
expectedNetAtTP_gross(s, usdNotional) ==
  MulDiv(usdNotional, Max(0, s.config.TAKE_PROFIT_PCT), 100000)

expectedNetAtTP(s, usdNotional) ==
  MulDiv(usdNotional,
         Max(0, s.config.TAKE_PROFIT_PCT - totalRoundTripCostRate(s)), 100000)

wait(s, reason) ==
  [s EXCEPT !.learnStats.decision = "WAIT", !.learnStats.lastReason = reason]

\* faulty variant: the confidence gate is dropped
confidenceLow_never(sig) == FALSE

\* conf < 0.55
confidenceLow(sig) == sig.conf < 550

\* Math.abs(edge) < MIN_EDGE
edgeBelow(s, sig) == Abs(sig.edge) < s.config.MIN_EDGE

\* maybeEnter once the signals sig of the tick's symbol are computed
enterOnSignals(s0, sig, symbol, price, ts, nowMs) ==
  LET s == [s0 EXCEPT !.learnStats.volatility = sig.vol,
                      !.learnStats.trendEdge = sig.edge,
                      !.learnStats.confidence = sig.conf,
                      !.learnStats.lastReason = sig.reason]
      pct == currentRiskPct(s)
      usdNotional == sizeNotional(s)
      worstEntryCosts == MulDiv(usdNotional, entryCostRate(s), 100000)
      charged == applyEntryCosts(s, usdNotional)
  IN  IF s.limits.halted
      THEN wait(s, IF s.limits.haltReason = NO_REASON THEN [tag |-> "halted"]
                   ELSE s.limits.haltReason)
      ELSE IF positionOpen(s) THEN [s EXCEPT !.learnStats.decision = "WAIT"]
      ELSE IF warmingUp(s) THEN [s EXCEPT !.learnStats.decision = "WAIT"]
      ELSE IF inCooldown(s, nowMs) THEN wait(s, [tag |-> "cooldown"])
      ELSE IF dailyCapReached(s) THEN wait(s, [tag |-> "max_trades_today"])
      ELSE IF ~canTradeProfitablyAtTP(s)
      THEN wait([s EXCEPT !.limits.halted = TRUE,
                          !.limits.haltReason = [tag |-> "tp_too_small_for_fees"]],
                [tag |-> "tp_too_small_for_fees"])
      ELSE IF confidenceLow(sig) THEN wait(s, [tag |-> "confidence_low"])
      ELSE IF edgeBelow(s, sig)
      THEN wait(s, [tag |-> "trend_below_threshold"])
      ELSE IF expectedNetAtTP(s, usdNotional) < s.config.MIN_NET_TP_USD
      THEN wait(s, [tag |-> "trade_too_small_for_net_tp"])
      ELSE IF s.wallets.trading <= worstEntryCosts + 100
      THEN wait(s, [tag |-> "wallet_too_low_for_fees"])
      ELSE [charged.state EXCEPT
              !.wallets.trading = @ - charged.total,
              !.position = [symbol |-> symbol,
                            qty |-> [num |-> usdNotional, den |-> price],
                            entry |-> price,
                            entryTs |-> ts,
                            entryNotionalUsd |-> usdNotional,
                            entryCosts |-> charged.total],
              !.trades = Append(@, [time |-> ts, symbol |-> symbol, type |-> "BUY",
                                    price |-> price,
                                    qty |-> [num |-> usdNotional, den |-> price],
                                    usd |-> usdNotional, cost |-> charged.total,
                                    note |-> [tag |-> "paper_entry_",
                                              pct |-> (pct + 5) \div 10]]),
              !.limits.lastTradeTs = ts,
              !.limits.tradesToday = @ + 1,
              !.learnStats.decision = "BUY",
              !.learnStats.lastReason = [tag |-> "entered_long"]]

maybeEnter(s0, symbol, price, ts, nowMs) ==
  enterOnSignals(s0, computeSignals(s0, symbol), symbol, price, ts, nowMs)

\* maybeExit looks at the position only on a tick of the position's own symbol
\* faulty variant: the symbol comparison is dropped (exits cross symbols)
exitApplies_anySymbol(s, symbol) == s.position # NULL

exitApplies(s, symbol) == s.position # NULL /\ s.position.symbol = symbol

\* faulty variant: the take-profit comparison is strict
takeProfitHit_strict(s, price) ==
  (price - s.position.entry) * 100000 > s.config.TAKE_PROFIT_PCT * s.position.entry

\* change >= TAKE_PROFIT_PCT, with change = (price - entry) / entry
takeProfitHit(s, price) ==
  (price - s.position.entry) * 100000 >= s.config.TAKE_PROFIT_PCT * s.position.entry

\* faulty variant: the change is compared with 0 instead of -STOP_LOSS_PCT
stopLossHit_atEntry(s, price) == price <= s.position.entry

\* change <= -STOP_LOSS_PCT
stopLossHit(s, price) ==
  (price - s.position.entry) * 100000 <= (0 - s.config.STOP_LOSS_PCT) * s.position.entry

\* net = gross - (pos.entryCosts || 0) - exitFee
\* faulty variant: the exit fee is left out of the net
closeNet_noExitFee(gross, entryCosts, exitFee) == gross - entryCosts

closeNet(gross, entryCosts, exitFee) == gross - entryCosts - exitFee

\* faulty variant: the comparison is inverted
isWin_inverted(net) == net <= 0

\* if (net >= 0) { wins ... } else { losses ... }
isWin(net) == net >= 0

\* faulty variant: the quantity is taken to be the notional, not the notional
\* over the entry price
grossPnl_qtyIsNotional(pos, price) == pos.qty.num * (price - pos.entry)

\* (price - entry) * pos.qty
grossPnl(pos, price) == MulDiv(pos.qty.num, price - pos.entry, pos.qty.den)

maybeExit(s, symbol, price, ts, nowMs) ==
  IF ~exitApplies(s, symbol) THEN s
  ELSE IF takeProfitHit(s, price) \/ stopLossHit(s, price)
  THEN
    LET pos == s.position
        tp == takeProfitHit(s, price)
        exitNotionalUsd == MulDiv(pos.qty.num, price, pos.qty.den)
        gross == grossPnl(pos, price)
        fee == applyExitFee(s, exitNotionalUsd)
        net == closeNet(gross, pos.entryCosts, fee.total)
        s1 == [fee.state EXCEPT
                 !.wallets.trading = @ + net,
                 !.realized.net = @ + net,
                 !.pnl = s.realized.net + net,
                 !.realized.wins = IF isWin(net) THEN @ + 1 ELSE @,
                 !.realized.grossProfit = IF isWin(net) THEN @ + net ELSE @,
                 !.realized.losses = IF isWin(net) THEN @ ELSE @ + 1,
                 !.realized.grossLoss = IF isWin(net) THEN @ ELSE @ + net,
                 !.streak.winsInRow = IF isWin(net) THEN @ + 1 ELSE 0,
                 !.streak.lossesInRow = IF isWin(net) THEN 0 ELSE @ + 1,
                 !.trades = Append(@, [time |-> ts, symbol |-> pos.symbol,
                                       type |-> "SELL", price |-> price,
                                       qty |-> pos.qty, usd |-> exitNotionalUsd,
                                       profit |-> net, gross |-> gross,
                                       fees |-> fee.total,
                                       note |-> [tag |-> IF tp THEN "take_profit"
                                                         ELSE "stop_loss"]]),
                 !.position = NULL]
        s2 == maybeTopUpFromStorehouse(sweepOverflow(checkDrawdown(s1), nowMs), nowMs)
    IN  [s2 EXCEPT !.learnStats.decision = "SELL",
                   !.learnStats.lastReason = [tag |-> IF tp THEN "tp_hit" ELSE "sl_hit"]]
  ELSE [s EXCEPT !.learnStats.decision = "WAIT"]

\* ts = Number(c || Date.now())
tickTs(c, nowMs) == IF c = 0 THEN nowMs ELSE c

\* faulty variant: the price is checked after the tick's bookkeeping
nonFiniteTick_counted(s, symbol, price, c, nowMs) ==
  [checkDaily(s, tickTs(c, nowMs)) EXCEPT
     !.learnStats.ticksSeen = @ + 1,
     !.learnStats.lastTickTs = tickTs(c, nowMs)]

\* the mutation of state by tick(symbol, price, c) when the price is not
\* finite: if (!Number.isFinite(price)) return
nonFiniteTick(s, symbol, price, c, nowMs) == s

\* if (state.trades.length > 4000) state.trades = state.trades.slice(-1500)
trimTrades(s) ==
  IF Len(s.trades) > TRADES_TRIM_AT THEN [s EXCEPT !.trades = Last(@, TRADES_KEEP)] ELSE s

\* the mutation of state by tick(symbol, price, c) for a finite price
tick(s, symbol, price, c, nowMs) ==
  LET ts == tickTs(c, nowMs)
      s1 == checkDaily(s, ts)
      s2 == [s1 EXCEPT !.lastPriceBySymbol = Merge(@, [k \in {symbol} |-> price]),
                       !.learnStats.ticksSeen = @ + 1,
                       !.learnStats.lastTickTs = ts]
      s3 == pushBuf(s2, symbol, price)
      s4 == maybeExit(s3, symbol, price, ts, nowMs)
  IN  trimTrades(maybeEnter(s4, symbol, price, ts, nowMs))

\* state.config after updateConfig(patch)
updateConfig(s, patch) ==
  LET merged == Merge(s.config, patch)
      base == clamp(IF merged.BASE_RISK_PCT = 0 THEN 3000 ELSE merged.BASE_RISK_PCT,
                    500, 50000)
      max == clamp(IF merged.MAX_RISK_PCT = 0 THEN 50000 ELSE merged.MAX_RISK_PCT,
                   base, 90000)
      cap == Max(0, IF merged.TRADING_WALLET_CAP = 0 THEN TRADING_WALLET_CAP_DEFAULT
                    ELSE merged.TRADING_WALLET_CAP)
      perDay == Max(1, IF merged.MAX_TRADES_PER_DAY = 0 THEN MAX_TRADES_PER_DAY_DEFAULT
                       ELSE merged.MAX_TRADES_PER_DAY)
  IN  [merged EXCEPT !.BASE_RISK_PCT = base, !.MAX_RISK_PCT = max,
                     !.TRADING_WALLET_CAP = cap, !.MAX_TRADES_PER_DAY = perDay]

(* updateConfig on patches whose values are arbitrary JavaScript values.  A
   value is [t |-> "number", v |-> n] for the number n, [t |-> "nan", v |-> 0]
   for NaN and [t |-> "text", v |-> 0] for a string that is not a numeral. *)
Num(n) == [t |-> "number", v |-> n]
NaN == [t |-> "nan", v |-> 0]
Text == [t |-> "text", v |-> 0]

\* Number(x): a string that is not a numeral converts to NaN
ToNumber(x) == IF x.t = "number" THEN x ELSE NaN

\* x || d: 0 and NaN are falsy, a non-empty string is truthy
OrElse(x, d) ==
  IF (x.t = "number" /\ x.v = 0) \/ x.t = "nan" THEN Num(d) ELSE x

\* Math.min(a, b) and Math.max(a, b): NaN if either argument is NaN
mathMin(a, b) == IF a.t # "number" \/ b.t # "number" THEN NaN ELSE Num(Min(a.v, b.v))
mathMax(a, b) == IF a.t # "number" \/ b.t # "number" THEN NaN ELSE Num(Max(a.v, b.v))

\* clamp(n, a, b) = Math.max(a, Math.min(b, n))
clampAny(n, a, b) == mathMax(a, mathMin(b, n))

\* the config in the representation above
TagConfig(cfg) ==
  [k \in DOMAIN cfg |-> IF k = "STATE_FILE" THEN Text ELSE Num(cfg[k])]

\* updateConfig(patch) on the config cfg
updateConfigAny(cfg, patch) ==
  [k \in (DOMAIN cfg) \cup (DOMAIN patch) |->
     IF k = "BASE_RISK_PCT"
       THEN clampAny(ToNumber(OrElse(Merge(cfg, patch).BASE_RISK_PCT, 3000)),
                     Num(500), Num(50000))
     ELSE IF k = "MAX_RISK_PCT"
       THEN clampAny(ToNumber(OrElse(Merge(cfg, patch).MAX_RISK_PCT, 50000)),
                     clampAny(ToNumber(OrElse(Merge(cfg, patch).BASE_RISK_PCT, 3000)),
                              Num(500), Num(50000)),
                     Num(90000))
     ELSE IF k = "TRADING_WALLET_CAP"
       THEN mathMax(Num(0),
                    ToNumber(OrElse(Merge(cfg, patch).TRADING_WALLET_CAP,
                                    TRADING_WALLET_CAP_DEFAULT)))
     ELSE IF k = "MAX_TRADES_PER_DAY"
       THEN mathMax(Num(1),
                    ToNumber(OrElse(Merge(cfg, patch).MAX_TRADES_PER_DAY,
                                    MAX_TRADES_PER_DAY_DEFAULT)))
     ELSE Merge(cfg, patch)[k]]

\* the document saveNow writes: { ...state, trades: state.trades.slice(-800) }
safe(s) == [s EXCEPT !.trades = Last(@, TRADES_SAVED)]

\* faulty variant: the defaults are spread over the parsed document
loadNow_defaultsWin(parsed, nowMs) ==
  LET base == defaultState(nowMs)
      st == Merge(parsed, base)
      st2 == IF st.limits.dayKey # dayKey(nowMs)
             THEN [st EXCEPT !.limits.dayKey = dayKey(nowMs), !.limits.tradesToday = 0]
             ELSE st
  IN  [st2 EXCEPT !.pnl = st2.realized.net]

\* the state loadNow builds from the parsed document, read when the clock is nowMs
loadNow(parsed, nowMs) ==
  LET base == defaultState(nowMs)
      nested == {"wallets", "realized", "costs", "learnStats", "limits",
                 "config", "streak", "buf"}
      st == Merge(Merge(base, parsed),
                  [k \in nested |-> IF k \in DOMAIN parsed
                                    THEN Merge(base[k], parsed[k]) ELSE base[k]])
      st2 == IF st.limits.dayKey # dayKey(nowMs)
             THEN [st EXCEPT !.limits.dayKey = dayKey(nowMs), !.limits.tradesToday = 0]
             ELSE st
  IN  [st2 EXCEPT !.pnl = st2.realized.net]

(* ----------------------------- PERSISTENCE ---------------------------- *)

\* STATE_FILE does not exist
NO_FILE == [missing |-> TRUE]

\* a document cut short: what writeFileSync leaves behind when it stops
\* half-way; JSON.parse throws on it
PARTIAL == [partial |-> TRUE]

\* how a run of saveNow can go: it completes, or writeFileSync throws before
\* it has written anything, or after it has written a part, or renameSync throws
SaveModes == {"ok", "throwsBeforeWrite", "throwsInWrite", "throwsAtRename"}

\* the modes that leave no .tmp file behind
PlainModes == {"ok", "throwsBeforeWrite"}

\* faulty variant: the document is written straight into STATE_FILE
saveNow_inPlace(s, d, t, mode) ==
  IF mode = "ok" THEN [disk |-> safe(s), tmp |-> t]
  ELSE IF mode = "throwsInWrite" THEN [disk |-> PARTIAL, tmp |-> t]
  ELSE [disk |-> d, tmp |-> t]

\* STATE_FILE and STATE_FILE.tmp after saveNow() ran in the given mode on
\* state s, from STATE_FILE d and STATE_FILE.tmp t; the same files are left
\* by a process that dies at the corresponding point of saveNow
saveNow(s, d, t, mode) ==
  IF mode = "ok" THEN [disk |-> safe(s), tmp |-> NO_FILE]
  ELSE IF mode = "throwsAtRename" THEN [disk |-> d, tmp |-> safe(s)]
  ELSE IF mode = "throwsInWrite" THEN [disk |-> d, tmp |-> PARTIAL]
  ELSE [disk |-> d, tmp |-> t]

\* loadNow's return value: false if STATE_FILE is missing or JSON.parse throws
loadNowReturns(d) == d # NO_FILE /\ d # PARTIAL

\* faulty variant: only a missing file is treated as absence of a snapshot
boot_parsesAnything(d, nowMs) ==
  IF d = NO_FILE THEN defaultState(nowMs) ELSE loadNow(d, nowMs)

\* the state after module load: let state = defaultState(); loadNow()
boot(d, nowMs) ==
  IF loadNowReturns(d) THEN loadNow(d, nowMs) ELSE defaultState(nowMs)

\* faulty variant: every call arms a new timer
scheduleSave_rearms(marker, n) == [saveTimer |-> TRUE, timers |-> n + 1]

\* scheduleSave(): the marker saveTimer and the number n of timeouts queued
scheduleSave(marker, n) ==
  IF marker THEN [saveTimer |-> marker, timers |-> n]
  ELSE [saveTimer |-> TRUE, timers |-> n + 1]

\* faulty variant: the callback never clears the marker
markerAfterFire_kept(mode) == TRUE

\* faulty variant: the marker is cleared only when the write went through
markerAfterFire_onSuccess(mode) == mode # "ok"

\* the marker after the timeout's callback: saveTimer = null, then saveNow()
markerAfterFire(mode) == FALSE

\* faulty variant: the limits survive the reset
hardReset_keepsLimits(s, nowMs) == [defaultState(nowMs) EXCEPT !.limits = s.limits]

\* the state after hardReset(): state = defaultState()
hardReset(s, nowMs) == defaultState(nowMs)

(* --------------------------- INPUTS OF THE MODEL ----------------------- *)

\* wall-clock readings and tick timestamps: 01:00 on day 0 and on day 1
Times == {3600000, 3600000 + DAY_MS}

\* (symbol, price) pairs the feed delivers
Feed == ({"BTCUSDT"} \X {1000, 1004}) \cup ({"ETHUSDT"} \X {1010})

\* config patches sent to updateConfig
PatchLowFee ==
  [WARMUP_TICKS |-> 10, FEE_RATE |-> 50, SPREAD_BP |-> 1, SLIPPAGE_BP |-> 1,
   MAX_USD_PER_TRADE |-> 100000]
PatchThin ==
  [FEE_RATE |-> 160, MAX_USD_PER_TRADE |-> 300000, TRADING_WALLET_CAP |-> 9990000]
PatchTight == [MAX_DRAWDOWN_PCT |-> 5, MAX_TRADES_PER_DAY |-> 1]
PatchSmall == [MAX_USD_PER_TRADE |-> 30000]
Patches == {PatchThin, PatchTight, PatchSmall}

\* an earlier run of the engine: updateConfig(PatchLowFee), then nine BTCUSDT
\* ticks rising from 991 to 999, all at 01:00 of day 0; its saved document
RECURSIVE RunTicks(_, _, _)
RunTicks(s, prices, t) ==
  IF prices = <<>> THEN s
  ELSE IF Len(prices) = 1 THEN tick(s, "BTCUSDT", prices[1], t, t)
  ELSE CHOOSE r \in
         {RunTicks(mid, SubSeq(prices, Len(prices) \div 2 + 1, Len(prices)), t) :
            mid \in {RunTicks(s, SubSeq(prices, 1, Len(prices) \div 2), t)}} : TRUE

WarmSnapshot ==
  safe(RunTicks([defaultState(3600000) EXCEPT
                   !.config = updateConfig(defaultState(3600000), PatchLowFee)],
                [i \in 1..9 |-> 990 + i], 3600000))

\* a longer earlier run: the low-fee config with WARMUP_TICKS 60, then 59
\* BTCUSDT ticks rising from 941 to 999 at 01:00 of day 0; its saved document
PatchLongRun ==
  [WARMUP_TICKS |-> 60, FEE_RATE |-> 50, SPREAD_BP |-> 1, SLIPPAGE_BP |-> 1,
   MAX_USD_PER_TRADE |-> 100000]

LongSnapshot ==
  safe(RunTicks([defaultState(3600000) EXCEPT
                   !.config = updateConfig(defaultState(3600000), PatchLongRun)],
                [i \in 1..59 |-> 940 + i], 3600000))

GateFeed == {"BTCUSDT"} \X {1000, 1004}

\* prices for which Number.isFinite(Number(b)) is false
NonFinite == {"NaN", "Infinity"}

PatchCostly == [FEE_RATE |-> 260]
PatchCold == [WARMUP_TICKS |-> 250]
PatchEdge == [MIN_EDGE |-> 10000]
GatePatches == {PatchCostly, PatchCold, PatchEdge}

\* patches of arbitrary values sent to updateConfig: a key that is no config
\* field, strings that are no numerals, a maximum below the baseline, zeros
PatchUnknownKey == [LEVERAGE |-> Num(10)]
PatchTextFee == [FEE_RATE |-> Text]
PatchTextRisk == [BASE_RISK_PCT |-> Text]
PatchInverted == [BASE_RISK_PCT |-> Num(40000), MAX_RISK_PCT |-> Num(10000)]
PatchZeros ==
  [BASE_RISK_PCT |-> Num(0), MAX_RISK_PCT |-> Num(95000), MAX_TRADES_PER_DAY |-> Num(0)]
PatchNaN == [BASE_RISK_PCT |-> NaN, TRADING_WALLET_CAP |-> Num(-1)]
AnyPatches ==
  {PatchUnknownKey, PatchTextFee, PatchTextRisk, PatchInverted, PatchZeros, PatchNaN}

\* the long snapshot of an engine started with 400.00 in the trading wallet
\* and MIN_USD_PER_TRADE 500.00
LowCashSnapshot ==
  [LongSnapshot EXCEPT !.wallets.trading = 40000, !.startBalance = 40000,
                       !.config.MIN_USD_PER_TRADE = 50000]

\* a document of the older schema: the state of the first engine of the
\* file, as its save() wrote it
OldSnapshot ==
  [running |-> TRUE,
   cashBalance |-> 9875000, equity |-> 9875000, peakEquity |-> 10000000,
   realized |-> [wins |-> 1, losses |-> 2, net |-> -125000],
   costs |-> [fees |-> 7000, slippage |-> 800, spread |-> 600],
   position |-> NULL,
   lastPriceBySymbol |-> [BTCUSDT |-> 999],
   learnStats |-> [ticksSeen |-> 300, confidence |-> 0, decision |-> "WAIT",
                   lastReason |-> [tag |-> "boot"]],
   limits |-> [dayKey |-> 0, tradesToday |-> 3, halted |-> FALSE,
               haltReason |-> NO_REASON, lastTradeTs |-> 3000000]]

\* what STATE_FILE may hold when the process starts
StoredDocs == {NO_FILE, PARTIAL, LongSnapshot, LowCashSnapshot, OldSnapshot}

StoreFeed == {"BTCUSDT"} \X {1000}

(* ----------------------------- STATE MACHINE --------------------------- *)

VARIABLES
  state,      \* the object the program keeps in memory: the engine's `state`
              \* (under SpecDb, the db object the last call of db.js returned)
              \* (under SpecFeed, the closure of startKrakenFeed)
  saveTimer,  \* TRUE while the marker saveTimer of scheduleSave is set
  disk,       \* the document in STATE_FILE (under SpecDb, in DB_PATH), or NO_FILE
  now,        \* the wall clock, Date.now()
  last,       \* the last engine call: its inputs and the state it started from
  hist,       \* what the calls so far did (ticks' days, BUYs per day)
  steps,      \* number of engine events so far
  tmp,        \* the document in STATE_FILE.tmp (under SpecDb, in TMP_PATH), or NO_FILE
  timers,     \* number of timeouts of scheduleSave waiting in the event loop
  calls       \* scheduleSave calls since the process started or a timeout fired

vars == <<state, saveTimer, disk, now, last, hist, steps, tmp, timers, calls>>

\* the records a call appended to the trade log
Appended(pre, post) ==
  IF Len(post.trades) >= Len(pre.trades)
  THEN SubSeq(post.trades, Len(pre.trades) + 1, Len(post.trades))
  ELSE <<>>

Did(pre, post, type) ==
  \E i \in 1..Len(Appended(pre, post)) : Appended(pre, post)[i].type = type

Days == {dayKey(t) : t \in Times}

\* tickDays, mono, lastTs: the ticks since construction or the last hardReset;
\* buys: BUYs per calendar day since then or since the last updateConfig;
\* sinceReset: BUYs since tradesToday was last set to 0;
\* entryCash: wallets.trading at the start of the tick that opened the position
\*   (-1 when that tick had also closed one)
hist0 == [tickDays |-> {}, mono |-> TRUE, lastTs |-> 0, buys |-> [d \in Days |-> 0],
          sinceReset |-> 0, entryCash |-> -1]

Init ==
  /\ now = 3600000
  /\ disk \in {NO_FILE, WarmSnapshot}
  /\ state = boot(disk, now)
  /\ saveTimer = FALSE
  /\ last = [op |-> "init", symbol |-> "", price |-> 0, ts |-> 0, now |-> now,
             seenDay |-> FALSE, pre |-> state]
  /\ hist = hist0
  /\ steps = 0
  /\ tmp = NO_FILE
  /\ timers = 0
  /\ calls = 0

\* a call of scheduleSave()
ScheduleSave ==
  /\ \E sch \in {scheduleSave(saveTimer, timers)} :
       /\ saveTimer' = sch.saveTimer
       /\ timers' = sch.timers
  /\ calls' = calls + 1

\* tick(symbol, price, c) with a finite price drawn from feed, then scheduleSave()
TickOn(feed) ==
  /\ steps < MaxSteps
  /\ state.running
  /\ \E f \in feed, c \in Times :
     \E ts \in {tickTs(c, now)}, post \in {tick(state, f[1], f[2], c, now)} :
           /\ state' = post
           /\ last' = [op |-> "tick", symbol |-> f[1], price |-> f[2], ts |-> ts,
                       now |-> now, seenDay |-> dayKey(ts) \in hist.tickDays,
                       pre |-> state]
           /\ hist' = [tickDays |-> hist.tickDays \cup {dayKey(ts)},
                       mono |-> hist.mono /\ ts >= hist.lastTs,
                       lastTs |-> ts,
                       buys |-> IF Did(state, post, "BUY")
                                THEN [hist.buys EXCEPT ![dayKey(ts)] = @ + 1]
                                ELSE hist.buys,
                       sinceReset |->
                         (IF state.limits.dayKey # dayKey(ts) THEN 0 ELSE hist.sinceReset)
                         + (IF Did(state, post, "BUY") THEN 1 ELSE 0),
                       entryCash |->
                         IF Did(state, post, "BUY")
                         THEN (IF Did(state, post, "SELL") THEN -1
                               ELSE state.wallets.trading)
                         ELSE hist.entryCash]
  /\ ScheduleSave
  /\ steps' = steps + 1
  /\ UNCHANGED <<disk, tmp, now>>

Tick == TickOn(Feed)

\* tick(symbol, price, c) with a price that is NaN or infinite: tick returns
\* at the Number.isFinite check, before checkDaily and before scheduleSave
TickNonFinite ==
  /\ steps < MaxSteps
  /\ state.running
  /\ \E f \in Symbols \X NonFinite, c \in Times :
       /\ state' = nonFiniteTick(state, f[1], f[2], c, now)
       /\ last' = [op |-> "tickNonFinite", symbol |-> f[1], price |-> 0,
                   ts |-> tickTs(c, now), now |-> now, seenDay |-> FALSE,
                   pre |-> state]
  /\ steps' = steps + 1
  /\ UNCHANGED <<saveTimer, disk, now, hist, tmp, timers, calls>>

\* updateConfig(patch) with a patch drawn from patches, then scheduleSave()
UpdateConfigWith(patches) ==
  /\ steps < MaxSteps
  /\ \E patch \in patches :
       /\ state' = [state EXCEPT !.config = updateConfig(state, patch)]
       /\ last' = [op |-> "updateConfig", symbol |-> "", price |-> 0, ts |-> 0,
                   now |-> now, seenDay |-> FALSE, pre |-> state]
  /\ hist' = [hist EXCEPT !.buys = [d \in Days |-> 0]]
  /\ ScheduleSave
  /\ steps' = steps + 1
  /\ UNCHANGED <<disk, tmp, now>>

UpdateConfig == UpdateConfigWith(Patches)

\* hardReset(): state = defaultState(); saveNow() runs at once, in one of the
\* given modes; what it throws is swallowed; a pending timer stays pending
HardResetWith(modes) ==
  /\ steps < MaxSteps
  /\ \E mode \in modes :
     \E post \in {hardReset(state, now)} :
     \E files \in {saveNow(post, disk, tmp, mode)} :
       /\ state' = post
       /\ disk' = files.disk
       /\ tmp' = files.tmp
       /\ last' = [op |-> "hardReset", symbol |-> "", price |-> 0, ts |-> 0,
                   now |-> now, seenDay |-> FALSE, pre |-> state, mode |-> mode,
                   calls |-> calls, marker |-> saveTimer, disk |-> disk]
  /\ hist' = hist0
  /\ steps' = steps + 1
  /\ UNCHANGED <<saveTimer, timers, calls, now>>

HardReset == HardResetWith(PlainModes)

\* a timeout of scheduleSave fires: saveTimer = null; saveNow(), in one of the
\* given modes
SaveTimerFiresWith(modes) ==
  /\ steps < MaxSteps
  /\ timers > 0
  /\ \E mode \in modes :
     \E files \in {saveNow(state, disk, tmp, mode)} :
       /\ saveTimer' = markerAfterFire(mode)
       /\ disk' = files.disk
       /\ tmp' = files.tmp
       /\ last' = [op |-> "saveTimer", symbol |-> "", price |-> 0, ts |-> 0,
                   now |-> now, seenDay |-> FALSE, pre |-> state, mode |-> mode,
                   calls |-> calls, disk |-> disk]
  /\ timers' = timers - 1
  /\ calls' = 0
  /\ steps' = steps + 1
  /\ UNCHANGED <<state, hist, now>>

SaveTimerFires == SaveTimerFiresWith(PlainModes)

\* the wall clock moves on
ClockAdvance ==
  /\ \E t \in Times : t > now /\ now' = t
  /\ UNCHANGED <<state, saveTimer, disk, last, hist, steps, tmp, timers, calls>>

Next == Tick \/ UpdateConfig \/ HardReset \/ SaveTimerFires \/ ClockAdvance

Spec == Init /\ [][Next]_vars

\* the engine restarted on the long snapshot, fed BTCUSDT prices and
\* non-finite prices, with the patches of GatePatches
InitGates ==
  /\ now = 3600000
  /\ disk = LongSnapshot
  /\ state = boot(disk, now)
  /\ saveTimer = FALSE
  /\ last = [op |-> "init", symbol |-> "", price |-> 0, ts |-> 0, now |-> now,
             seenDay |-> FALSE, pre |-> state]
  /\ hist = hist0
  /\ steps = 0
  /\ tmp = NO_FILE
  /\ timers = 0
  /\ calls = 0

TickGates == TickOn(GateFeed)

UpdateConfigGates == UpdateConfigWith(GatePatches)

NextGates ==
  TickGates \/ TickNonFinite \/ UpdateConfigGates \/ HardReset \/ SaveTimerFires
    \/ ClockAdvance

SpecGates == InitGates /\ [][NextGates]_vars

\* the config endpoint alone: a freshly constructed engine whose config is
\* patched with arbitrary values
InitConfig ==
  /\ now = 3600000
  /\ disk = NO_FILE
  /\ state = [defaultState(now) EXCEPT !.config = TagConfig(@)]
  /\ saveTimer = FALSE
  /\ last = [op |-> "init", symbol |-> "", price |-> 0, ts |-> 0, now |-> now,
             seenDay |-> FALSE, pre |-> state, patch |-> <<>>]
  /\ hist = hist0
  /\ steps = 0
  /\ tmp = NO_FILE
  /\ timers = 0
  /\ calls = 0

\* updateConfig(patch) with a patch of arbitrary values, then scheduleSave()
UpdateConfigAny ==
  /\ steps < MaxSteps
  /\ \E patch \in AnyPatches :
       /\ state' = [state EXCEPT !.config = updateConfigAny(@, patch)]
       /\ last' = [op |-> "updateConfig", symbol |-> "", price |-> 0, ts |-> 0,
                   now |-> now, seenDay |-> FALSE, pre |-> state, patch |-> patch]
  /\ ScheduleSave
  /\ steps' = steps + 1
  /\ UNCHANGED <<disk, tmp, now, hist>>

NextConfig == UpdateConfigAny

SpecConfig == InitConfig /\ [][NextConfig]_vars

\* the engine and its files: it starts on any stored document, saves in
\* every mode, and its process may die and be started again
InitStore ==
  /\ now = 3600000
  /\ disk \in StoredDocs
  /\ state = boot(disk, now)
  /\ saveTimer = FALSE
  /\ last = [op |-> "init", symbol |-> "", price |-> 0, ts |-> 0, now |-> now,
             seenDay |-> FALSE, pre |-> state]
  /\ hist = hist0
  /\ steps = 0
  /\ tmp = NO_FILE
  /\ timers = 0
  /\ calls = 0

TickStore == TickOn(StoreFeed)

UpdateConfigStore == UpdateConfigWith({PatchSmall})

HardResetStore == HardResetWith(SaveModes)

SaveTimerFiresStore == SaveTimerFiresWith(SaveModes)

\* the runs of saveNow the process can die in: that of a timeout that is due,
\* on the current state, and that of a hardReset, on the default state
DyingSaves ==
  {[s |-> state, mode |-> m] : m \in IF timers > 0 THEN SaveModes ELSE {}}
    \cup {[s |-> hardReset(state, now), mode |-> m] : m \in SaveModes}

\* the process dies, outside saveNow or at a point inside it, and is started
\* again: let state = defaultState(); saveTimer = null; loadNow()
CrashRestart ==
  /\ steps < MaxSteps
  /\ \E files \in {[disk |-> disk, tmp |-> tmp, mode |-> "none"]}
                    \cup {[disk |-> saveNow(d.s, disk, tmp, d.mode).disk,
                           tmp |-> saveNow(d.s, disk, tmp, d.mode).tmp,
                           mode |-> d.mode] : d \in DyingSaves} :
       /\ disk' = files.disk
       /\ tmp' = files.tmp
       /\ state' = boot(files.disk, now)
       /\ last' = [op |-> "restart", symbol |-> "", price |-> 0, ts |-> 0,
                   now |-> now, seenDay |-> FALSE, pre |-> state,
                   mode |-> files.mode, calls |-> calls, disk |-> disk]
  /\ saveTimer' = FALSE
  /\ timers' = 0
  /\ calls' = 0
  /\ hist' = hist0
  /\ steps' = steps + 1
  /\ UNCHANGED now

NextStore ==
  TickStore \/ UpdateConfigStore \/ HardResetStore \/ SaveTimerFiresStore
    \/ CrashRestart \/ ClockAdvance

SpecStore == InitStore /\ [][NextStore]_vars

\* the event loop runs the timeout of scheduleSave and the write succeeds;
\* the callback is due however many operations have run
SaveTimerSucceeds ==
  /\ timers > 0
  /\ \E files \in {saveNow(state, disk, tmp, "ok")} :
       /\ saveTimer' = markerAfterFire("ok")
       /\ disk' = files.disk
       /\ tmp' = files.tmp
       /\ last' = [op |-> "saveTimer", symbol |-> "", price |-> 0, ts |-> 0,
                   now |-> now, seenDay |-> FALSE, pre |-> state, mode |-> "ok",
                   calls |-> calls, disk |-> disk]
  /\ timers' = timers - 1
  /\ calls' = 0
  /\ UNCHANGED <<state, hist, now, steps>>

TickLive == TickOn(StoreFeed)

UpdateConfigLive == UpdateConfigWith({PatchSmall})

NextLive ==
  TickLive \/ UpdateConfigLive \/ HardReset \/ SaveTimerSucceeds \/ ClockAdvance

\* the engine under an event loop that runs every timeout that is due
SpecLive == Init /\ [][NextLive]_vars /\ WF_vars(SaveTimerSucceeds)

(* --------------------------- PRICE GAPS -------------------------------- *)

\* BTCUSDT prices with a gap: 900 is 10% below the other two, thirty times
\* the stop-loss distance
GapFeed == {"BTCUSDT"} \X {1000, 1004, 900}

\* the engine started without a file (the default config) or restarted on the
\* long snapshot (the low-cost config)
InitGap ==
  /\ now = 3600000
  /\ disk \in {NO_FILE, LongSnapshot}
  /\ state = boot(disk, now)
  /\ saveTimer = FALSE
  /\ last = [op |-> "init", symbol |-> "", price |-> 0, ts |-> 0, now |-> now,
             seenDay |-> FALSE, pre |-> state]
  /\ hist = hist0
  /\ steps = 0
  /\ tmp = NO_FILE
  /\ timers = 0
  /\ calls = 0

TickGap == TickOn(GapFeed)

\* a cap just under the starting trading wallet; a top-up trigger just under it
PatchCap == [TRADING_WALLET_CAP |-> 9990000]
PatchTrigger == [TOPUP_TRIGGER |-> 9995000]

\* the default FEE_RATE put back, the cap lowered, the trigger raised
UpdateConfigGap == UpdateConfigWith({PatchCostly, PatchCap, PatchTrigger})

NextGap == TickGap \/ UpdateConfigGap \/ ClockAdvance

SpecGap == InitGap /\ [][NextGap]_vars

(* ------------------------- THE JSON FILE DB (db.js) -------------------- *)

SCHEMA_VERSION == 2

defaultSummary ==
  [startBalance |-> 0, balance |-> 0, pnl |-> 0, wins |-> 0, losses |-> 0,
   totalGain |-> 0, totalLoss |-> 0, fees |-> 0, slippage |-> 0, spread |-> 0,
   lastTradeTs |-> 0]

defaultDb ==
  [schemaVersion |-> SCHEMA_VERSION,
   users |-> <<>>, companies |-> <<>>, audit |-> <<>>, notifications |-> <<>>,
   brain |-> [memory |-> <<>>, notes |-> <<>>],
   paper |-> [summary |-> defaultSummary, trades |-> <<>>, daily |-> <<>>],
   live |-> [events |-> <<>>]]

\* field k of the object db, or the object d when db lacks it
FieldOr(db, k, d) == IF k \in DOMAIN db THEN db[k] ELSE d

\* migrate(db) for an object db: the missing collections are added and
\* schemaVersion is set; what db has is kept
migrate(db) ==
  Merge(db,
    [schemaVersion |-> SCHEMA_VERSION,
     users |-> FieldOr(db, "users", <<>>),
     companies |-> FieldOr(db, "companies", <<>>),
     audit |-> FieldOr(db, "audit", <<>>),
     notifications |-> FieldOr(db, "notifications", <<>>),
     brain |-> Merge(defaultDb.brain, FieldOr(db, "brain", <<>>)),
     paper |-> Merge(defaultDb.paper, FieldOr(db, "paper", <<>>)),
     live |-> Merge(defaultDb.live, FieldOr(db, "live", <<>>))])

\* where a call of db.js can stop because the process dies: nowhere, inside
\* the writeFileSync(DB_PATH, ...) of ensureDb, inside the
\* writeFileSync(TMP_PATH, ...) of writeDb, or between that write and the rename
DbModes == {"ok", "diesInEnsureWrite", "diesInTmpWrite", "diesBeforeRename"}

\* the modes a call of readDb can take
ReadModes == {"ok", "diesInEnsureWrite"}

\* DB_PATH after ensureDb(), from DB_PATH d: a missing file is created with
\* the defaults, an existing one is parsed, migrated and written back to
\* DB_PATH itself, one that does not parse is rebuilt with the defaults; a
\* process that dies inside the write leaves a part of the document
ensureDb(d, mode) ==
  IF mode = "diesInEnsureWrite" THEN PARTIAL
  ELSE IF d = NO_FILE \/ d = PARTIAL THEN defaultDb
  ELSE migrate(d)

\* the object readDb() returns, from DB_PATH d
readDb(d) == migrate(ensureDb(d, "ok"))

\* DB_PATH and TMP_PATH after writeDb(db), from DB_PATH d and TMP_PATH t
writeDb(db, d, t, mode) ==
  IF mode = "ok" THEN [disk |-> migrate(db), tmp |-> NO_FILE]
  ELSE IF mode = "diesInEnsureWrite" THEN [disk |-> ensureDb(d, mode), tmp |-> t]
  ELSE IF mode = "diesInTmpWrite" THEN [disk |-> ensureDb(d, "ok"), tmp |-> PARTIAL]
  ELSE [disk |-> ensureDb(d, "ok"), tmp |-> migrate(db)]

\* no db object is held: the process has just started
NO_DB == [none |-> TRUE]

\* a db.json written by the first schema: users only
OldDb == [users |-> <<"admin">>]

\* a db.json of the current schema with one user and one persisted trade
CurrentDb ==
  [defaultDb EXCEPT !.users = <<"admin">>, !.paper.trades = <<"BUY">>]

DbDocs == {NO_FILE, OldDb, CurrentDb}

MaxUsers == 3

\* mutators passed to updateDb: a user is added, an audit entry is added
Mutators == {"addUser", "addAudit"}

mutate(db, mutator) ==
  IF mutator = "addUser"
  THEN [db EXCEPT !.users = IF Len(@) < MaxUsers THEN Append(@, "user") ELSE @]
  ELSE [db EXCEPT !.audit = IF Len(@) < MaxUsers THEN Append(@, "entry") ELSE @]

InitDb ==
  /\ disk \in DbDocs
  /\ tmp = NO_FILE
  /\ state = NO_DB
  /\ last = [op |-> "init", mode |-> "ok", disk |-> disk]
  /\ steps = 0
  /\ now = 3600000
  /\ saveTimer = FALSE
  /\ hist = hist0
  /\ timers = 0
  /\ calls = 0

\* readDb(): ensureDb() and then the parse of DB_PATH; a process that died is
\* started again and holds no db object
ReadDb ==
  /\ steps < MaxSteps
  /\ \E mode \in ReadModes :
       /\ disk' = ensureDb(disk, mode)
       /\ state' = IF mode = "ok" THEN readDb(disk) ELSE NO_DB
       /\ last' = [op |-> "readDb", mode |-> mode, disk |-> disk]
  /\ steps' = steps + 1
  /\ UNCHANGED <<tmp, now, saveTimer, hist, timers, calls>>

\* updateDb(mutator): readDb(), the mutator, writeDb(out)
UpdateDb ==
  /\ steps < MaxSteps
  /\ \E mode \in DbModes, mutator \in Mutators :
     \E out \in {mutate(readDb(disk), mutator)} :
     \E files \in {writeDb(out, ensureDb(disk, "ok"), tmp, mode)} :
       /\ disk' = files.disk
       /\ tmp' = files.tmp
       /\ state' = IF mode = "ok" THEN migrate(out) ELSE NO_DB
       /\ last' = [op |-> "updateDb", mode |-> mode, disk |-> disk]
  /\ steps' = steps + 1
  /\ UNCHANGED <<now, saveTimer, hist, timers, calls>>

\* writeDb(db) with the db object the caller holds
WriteDb ==
  /\ steps < MaxSteps
  /\ state # NO_DB
  /\ \E mode \in DbModes :
     \E files \in {writeDb(state, disk, tmp, mode)} :
       /\ disk' = files.disk
       /\ tmp' = files.tmp
       /\ state' = IF mode = "ok" THEN state ELSE NO_DB
       /\ last' = [op |-> "writeDb", mode |-> mode, disk |-> disk]
  /\ steps' = steps + 1
  /\ UNCHANGED <<now, saveTimer, hist, timers, calls>>

NextDb == ReadDb \/ UpdateDb \/ WriteDb

SpecDb == InitDb /\ [][NextDb]_vars

(* ------------- THE STEP-10 EXECUTOR (paperTrader.js, lines 1-273) ------ *)

START_BAL == 10000000
MAX_TRADES_DAY == 40

\* tradeBrain.js: TRADE_MIN_CONF in 1e-3, TRADE_MAX_TRADES_PER_DAY
MIN_CONF == 620
BRAIN_MAX_TRADES_PER_DAY == 12

\* floor(a * b / d) for d > 0 and b >= 0, a of either sign, without forming
\* a * b: b is split at 1000
MulDivWide(a, b, d) ==
  ((a * (b \div 1000)) \div d) * 1000
    + ((((a * (b \div 1000)) % d) * 1000 + a * (b % 1000)) \div d)

\* defaultState() of the executor, evaluated when the wall clock reads nowMs
defaultStateStep10(nowMs) ==
  [running |-> TRUE,
   cashBalance |-> START_BAL, equity |-> START_BAL, peakEquity |-> START_BAL,
   realized |-> [wins |-> 0, losses |-> 0, net |-> 0],
   costs |-> [fees |-> 0, slippage |-> 0, spread |-> 0],
   position |-> NULL,
   lastPriceBySymbol |-> [s \in {} |-> 0],
   learnStats |-> [ticksSeen |-> 0, confidence |-> 0, decision |-> "WAIT",
                   lastReason |-> [tag |-> "boot"]],
   limits |-> [dayKey |-> dayKey(nowMs), tradesToday |-> 0, halted |-> FALSE,
               haltReason |-> NO_REASON, lastTradeTs |-> 0]]

\* load(): { ...defaultState(), ...raw }, the defaults when the file is
\* missing or does not parse
loadStep10(d, nowMs) ==
  IF d = NO_FILE \/ d = PARTIAL THEN defaultStateStep10(nowMs)
  ELSE Merge(defaultStateStep10(nowMs), d)

resetDayIfNeeded(s, ts) ==
  IF s.limits.dayKey # dayKey(ts)
  THEN [s EXCEPT !.limits.dayKey = dayKey(ts), !.limits.tradesToday = 0]
  ELSE s

\* (price - position.entry) * position.qty in cents, the price in dollars
openValue(pos, price) == MulDivWide(price * 100 - pos.entry, pos.qty.num, pos.qty.den)

\* updateEquity(price): the price is that of the tick, whatever its symbol
updateEquity(s, symbol, price) ==
  [s EXCEPT
     !.equity = IF s.position # NULL
                THEN s.cashBalance + openValue(s.position, price)
                ELSE s.cashBalance,
     !.peakEquity = Max(@, IF s.position # NULL
                           THEN s.cashBalance + openValue(s.position, price)
                           ELSE s.cashBalance)]

\* (peakEquity - equity) / peakEquity >= MAX_DRAWDOWN_PCT
equityDrawdownReached(s) ==
  MulDivWide(s.peakEquity - s.equity, 100000, MAX_DRAWDOWN_PCT) >= s.peakEquity

checkDrawdownStep10(s) ==
  IF s.limits.halted THEN s
  ELSE IF equityDrawdownReached(s)
  THEN [s EXCEPT !.limits.halted = TRUE, !.limits.haltReason = [tag |-> "max_drawdown"]]
  ELSE s

canTrade(s, ts) ==
  /\ ~s.limits.halted
  /\ s.limits.tradesToday < MAX_TRADES_DAY
  /\ ts - s.limits.lastTradeTs >= COOLDOWN_MS

\* riskPct of tradeBrain's plan when the paper state has no config and no
\* lossesToday: clamp(baselinePct * 2, baselinePct, maxPct), in 1e-5
planRiskPct == clamp(1000 * 2, 1000, 3000)

\* what aiBrain.decide returns, {} when aiBrain has no decide
NO_VIEW == [action |-> "", confidence |-> -1, edge |-> 0]

\* makeDecision({symbol, last, paper}) of tradeBrain.js for a finite last
\* price: the action of the AI view, or learnStats.decision without one,
\* behind the brain's own gates
makeDecision(s, view) ==
  [action |->
     IF s.limits.halted THEN "WAIT"
     ELSE IF s.limits.tradesToday >= BRAIN_MAX_TRADES_PER_DAY THEN "WAIT"
     ELSE IF (IF view = NO_VIEW THEN s.learnStats.confidence ELSE view.confidence)
               < MIN_CONF THEN "WAIT"
     ELSE IF Abs(view.edge) < MIN_EDGE THEN "WAIT"
     ELSE IF view = NO_VIEW THEN s.learnStats.decision
     ELSE view.action,
   confidence |-> IF view = NO_VIEW THEN s.learnStats.confidence ELSE view.confidence,
   riskPct |-> planRiskPct]

\* the size of an entry: clamp(cashBalance * riskPct, 25, cashBalance - 10)
entryUsd(s, riskPct) ==
  clamp(MulDiv(s.cashBalance, riskPct, 100000), 2500, s.cashBalance - 1000)

\* the fill price in cents: price + spread + slippage
fillPrice(price) == (price * (10000 + SPREAD_BP + SLIPPAGE_BP)) \div 100

openPosition(s, symbol, price, riskPct, nowMs) ==
  IF entryUsd(s, riskPct) <= 0 THEN s
  ELSE [s EXCEPT
          !.cashBalance = @ - (entryUsd(s, riskPct)
                               + MulDiv(entryUsd(s, riskPct), FEE_RATE, 100000)),
          !.costs.fees = @ + MulDiv(entryUsd(s, riskPct), FEE_RATE, 100000),
          !.costs.spread = @ + MulDiv(entryUsd(s, riskPct), SPREAD_BP,
                                      10000 + SPREAD_BP + SLIPPAGE_BP),
          !.costs.slippage = @ + MulDiv(entryUsd(s, riskPct), SLIPPAGE_BP,
                                        10000 + SPREAD_BP + SLIPPAGE_BP),
          !.position = [symbol |-> symbol, entry |-> fillPrice(price),
                        qty |-> [num |-> entryUsd(s, riskPct), den |-> fillPrice(price)],
                        ts |-> nowMs],
          !.limits.tradesToday = @ + 1,
          !.limits.lastTradeTs = nowMs]

\* closePosition(price, reason) with the gross result and the fee worked out
closeWith(s, gross, fee) ==
  [s EXCEPT
     !.cashBalance = @ + s.position.qty.num + gross - fee,
     !.costs.fees = @ + fee,
     !.realized.net = @ + (gross - fee),
     !.realized.wins = IF gross - fee > 0 THEN @ + 1 ELSE @,
     !.realized.losses = IF gross - fee > 0 THEN @ ELSE @ + 1,
     !.position = NULL]

closePosition(s, price) ==
  IF s.position = NULL THEN s
  ELSE closeWith(s, openValue(s.position, price),
                 MulDiv(Abs(openValue(s.position, price)), FEE_RATE, 100000))

\* tick up to the decision: the day, the last price, the tick count, equity
\* and the drawdown halt
tickHead(s, symbol, price, ts) ==
  checkDrawdownStep10(
    updateEquity(
      [resetDayIfNeeded(s, ts) EXCEPT
         !.lastPriceBySymbol = Merge(@, [k \in {symbol} |-> price]),
         !.learnStats.ticksSeen = @ + 1],
      symbol, price))

\* the plan is noted in learnStats
notePlan(s, plan) ==
  [s EXCEPT !.learnStats.decision = plan.action,
            !.learnStats.confidence = plan.confidence,
            !.learnStats.lastReason = [tag |-> plan.action]]

\* tick after the plan was noted: the canTrade return, then the entry or
\* the close the plan asks for
execute(s, plan, symbol, price, ts, nowMs) ==
  IF ~canTrade(s, ts) THEN s
  ELSE IF plan.action = "BUY" /\ s.position = NULL
  THEN openPosition(s, symbol, price, plan.riskPct, nowMs)
  ELSE IF (plan.action = "SELL" \/ plan.action = "CLOSE")
            /\ s.position # NULL /\ s.position.symbol = symbol
  THEN closePosition(s, price)
  ELSE s

\* the plan tick works with, from the state tickHead left
planOf(mid, view) ==
  IF mid.learnStats.ticksSeen < WARMUP_TICKS
  THEN [action |-> "none", confidence |-> 0, riskPct |-> 0]
  ELSE makeDecision(mid, view)

\* tick(symbol, price, ts) of the executor, from the state tickHead left
tickTail(mid, plan, symbol, price, ts, nowMs) ==
  IF mid.learnStats.ticksSeen < WARMUP_TICKS THEN mid
  ELSE execute(notePlan(mid, plan), plan, symbol, price, ts, nowMs)

\* a snapshot of the executor: 300 ticks seen, three trades today, the last
\* of them at 00:50 of day 0, a decision of the AI view noted
ExecSnapshot ==
  [OldSnapshot EXCEPT !.learnStats.decision = "BUY", !.learnStats.confidence = 700]

ExecDocs == {NO_FILE, OldSnapshot, ExecSnapshot}

\* (symbol, price in dollars) pairs fed to the executor
ExecFeed == {<<"ETHUSDT", 100>>, <<"BTCUSDT", 1000>>}

\* the views of the AI brain
Views ==
  {[action |-> a, confidence |-> 700, edge |-> 100] : a \in {"WAIT", "BUY", "SELL", "CLOSE"}}
    \cup {[action |-> "BUY", confidence |-> 500, edge |-> 100], NO_VIEW}

InitStep10 ==
  /\ now = 3600000
  /\ disk \in ExecDocs
  /\ state = loadStep10(disk, now)
  /\ last = [op |-> "init", symbol |-> "", price |-> 0, ts |-> 0, now |-> now,
             plan |-> [action |-> "none", confidence |-> 0, riskPct |-> 0],
             pre |-> state]
  /\ steps = 0
  /\ tmp = NO_FILE
  /\ saveTimer = FALSE
  /\ hist = hist0
  /\ timers = 0
  /\ calls = 0

\* tick(symbol, price, ts) of the executor and its save()
TickStep10 ==
  /\ steps < MaxSteps
  /\ state.running
  /\ \E f \in ExecFeed, c \in Times, view \in Views :
     \E mid \in {tickHead(state, f[1], f[2], tickTs(c, now))} :
     \E plan \in {planOf(mid, view)} :
     \E post \in {tickTail(mid, plan, f[1], f[2], tickTs(c, now), now)} :
       /\ state' = post
       /\ disk' = post
       /\ last' = [op |-> "tickStep10", symbol |-> f[1], price |-> f[2],
                   ts |-> tickTs(c, now), now |-> now, plan |-> plan, pre |-> state]
  /\ steps' = steps + 1
  /\ UNCHANGED <<now, tmp, saveTimer, hist, timers, calls>>

\* hardReset() of the executor: the defaults, saved at once
HardResetStep10 ==
  /\ steps < MaxSteps
  /\ \E post \in {defaultStateStep10(now)} :
       /\ state' = post
       /\ disk' = post
       /\ last' = [op |-> "hardResetStep10", symbol |-> "", price |-> 0, ts |-> 0,
                   now |-> now,
                   plan |-> [action |-> "none", confidence |-> 0, riskPct |-> 0],
                   pre |-> state]
  /\ steps' = steps + 1
  /\ UNCHANGED <<now, tmp, saveTimer, hist, timers, calls>>

NextStep10 == TickStep10 \/ HardResetStep10 \/ ClockAdvance

SpecStep10 == InitStep10 /\ [][NextStep10]_vars

(* -------- THE KRAKEN FEED (krakenFeed.js and its earlier version) ------ *)
(* startKrakenFeed of backend/src/services/krakenFeed.js ("current") and of
   the earlier file of the same name ("older").  Here `state` is the closure
   of one startKrakenFeed call: its variables ws, closedByUs, reconnectTimer,
   backoffMs, lastMsgAt and watchdog, the sockets it has created and the
   timers of the event loop.  A socket is [readyState, listeners]; ws,
   reconnectTimer and watchdog hold the number of a socket or timer, 0 for
   null.  backoffMs is in thousandths of a millisecond, so that the older
   file's backoffMs * 1.4 stays exact.  onTick and onStatus are the callbacks
   of server.js, which do not call back into the feed. *)

\* number of feed events explored
MaxFeedEvents == 7

BACKOFF_START == 1500000
BACKOFF_CAP == 15000000
WATCHDOG_AGE == 20000

Versions == {"current", "older"}

\* the closure before connect() runs
feed0(version) ==
  [version |-> version, ws |-> 0, closedByUs |-> FALSE, reconnectTimer |-> 0,
   backoffMs |-> BACKOFF_START, lastMsgAt |-> 0, watchdog |-> 0,
   sockets |-> <<>>, timeouts |-> {}, intervals |-> {}, seq |-> 0]

\* clearInterval(watchdog), clearTimeout(reconnectTimer), both set to null
clearTimers(f) ==
  [f EXCEPT !.intervals = @ \ {f.watchdog}, !.watchdog = 0,
            !.timeouts = @ \ {f.reconnectTimer}, !.reconnectTimer = 0]

\* ws.removeAllListeners(); ws = null
cleanupSocket(f) ==
  IF f.ws = 0 THEN f
  ELSE [f EXCEPT !.sockets[f.ws].listeners = FALSE, !.ws = 0]

\* cleanup() of the older file: the timers, then the socket
cleanup(f) == cleanupSocket(clearTimers(f))

\* `ws && ws.close()` and `ws && ws.terminate()` on socket i: a socket that is
\* connecting or open starts closing; its 'close' event comes later
wsClose(f, i) ==
  IF i = 0 THEN f
  ELSE IF f.sockets[i].readyState \in {"connecting", "open"}
  THEN [f EXCEPT !.sockets[i].readyState = "closing"]
  ELSE f

\* Math.min(Math.floor(backoffMs * 1.4), 15000); the older file does not floor
nextBackoff(f) ==
  IF f.version = "current"
  THEN Min(((f.backoffMs * 14) \div 10000) * 1000, BACKOFF_CAP)
  ELSE Min((f.backoffMs * 14) \div 10, BACKOFF_CAP)

scheduleReconnect(f) ==
  IF f.closedByUs THEN f
  ELSE LET g == [f EXCEPT !.backoffMs = nextBackoff(f)]
           h == IF f.version = "current" THEN clearTimers(g) ELSE g
       IN  [h EXCEPT !.seq = @ + 1, !.reconnectTimer = h.seq + 1,
                     !.timeouts = @ \cup {h.seq + 1}]

\* connect(): the old timers and listeners go, a new socket with its four
\* listeners and a new watchdog interval come
connect(f) ==
  LET g == cleanup(f)
  IN  [g EXCEPT !.sockets = Append(@, [readyState |-> "connecting", listeners |-> TRUE]),
                !.ws = Len(g.sockets) + 1,
                !.seq = @ + 1, !.watchdog = g.seq + 1,
                !.intervals = @ \cup {g.seq + 1}]

\* stop(): the current file closes the socket and then cleans up; the older
\* file cleans up, which sets ws to null, and then runs `ws && ws.close()`
stop(f) ==
  IF f.version = "current"
  THEN cleanupSocket(clearTimers(wsClose([f EXCEPT !.closedByUs = TRUE], f.ws)))
  ELSE LET g == cleanup([f EXCEPT !.closedByUs = TRUE])
       IN  wsClose(g, g.ws)

\* ws.on('open'): backoffMs = 1500; lastMsgAt = Date.now(); subscribe
onOpen(f, nowMs) == [f EXCEPT !.backoffMs = BACKOFF_START, !.lastMsgAt = nowMs]

\* what a frame can be: an event object, a ticker array with a finite last
\* price, anything else (unparseable, no pair, non-finite price)
Messages == {"event", "ticker", "other"}

\* ws.on('message'): lastMsgAt = Date.now(); onTick is called for a ticker
onMessage(f, nowMs) == [f EXCEPT !.lastMsgAt = nowMs]
callsOnTick(kind) == kind = "ticker"

\* ws.on('close')
onClose(f) == scheduleReconnect(f)

\* ws.on('error'): ws && ws.close(), on the socket ws names now
onError(f) == wsClose(f, f.ws)

\* the watchdog interval
onWatchdog(f, nowMs) ==
  IF f.closedByUs THEN f
  ELSE IF nowMs - f.lastMsgAt > WATCHDOG_AGE THEN wsClose(f, f.ws)
  ELSE f

\* one event of the event loop: post is the closure after its handler
FeedEvent(op, post, ticked, conn) ==
  /\ steps < MaxFeedEvents
  /\ state' = post
  /\ last' = [op |-> op, pre |-> state, tick |-> ticked, connect |-> conn]
  /\ steps' = steps + 1
  /\ UNCHANGED <<saveTimer, disk, now, hist, tmp, timers, calls>>

\* startKrakenFeed has run: connect() was called once
InitFeed ==
  /\ now = 3600000
  /\ state \in {connect(feed0(v)) : v \in Versions}
  /\ last = [op |-> "init", pre |-> state, tick |-> FALSE, connect |-> TRUE]
  /\ saveTimer = FALSE
  /\ disk = NO_FILE
  /\ hist = hist0
  /\ steps = 0
  /\ tmp = NO_FILE
  /\ timers = 0
  /\ calls = 0

\* the handshake of socket i completes
SocketOpen ==
  \E i \in DOMAIN state.sockets :
    /\ state.sockets[i].readyState = "connecting"
    /\ \E f \in {[state EXCEPT !.sockets[i].readyState = "open"]} :
         FeedEvent("open",
                   IF state.sockets[i].listeners THEN onOpen(f, now) ELSE f,
                   FALSE, FALSE)

\* a frame arrives on socket i
SocketMessage ==
  \E i \in DOMAIN state.sockets, kind \in Messages :
    /\ state.sockets[i].readyState \in {"open", "closing"}
    /\ FeedEvent("message",
                 IF state.sockets[i].listeners THEN onMessage(state, now) ELSE state,
                 state.sockets[i].listeners /\ callsOnTick(kind), FALSE)

\* socket i is closed: by the peer, by the network, or at the end of a close
\* or terminate the feed asked for
SocketClose ==
  \E i \in DOMAIN state.sockets :
    /\ state.sockets[i].readyState \in {"connecting", "open", "closing"}
    /\ \E f \in {[state EXCEPT !.sockets[i].readyState = "closed"]} :
         FeedEvent("close",
                   IF state.sockets[i].listeners THEN onClose(f) ELSE f,
                   FALSE, FALSE)

\* socket i reports an error
SocketError ==
  \E i \in DOMAIN state.sockets :
    /\ state.sockets[i].readyState \in {"connecting", "open"}
    /\ FeedEvent("error",
                 IF state.sockets[i].listeners THEN onError(state) ELSE state,
                 FALSE, FALSE)

\* a watchdog interval that was not cleared comes round
WatchdogFires ==
  \E id \in state.intervals :
    FeedEvent("watchdog", onWatchdog(state, now), FALSE, FALSE)

\* a reconnect timeout that was not cleared expires: connect()
ReconnectTimerFires ==
  \E id \in state.timeouts :
    FeedEvent("reconnect", connect([state EXCEPT !.timeouts = @ \ {id}]),
              FALSE, TRUE)

\* the caller's stop()
Stop == FeedEvent("stop", stop(state), FALSE, FALSE)

NextFeed ==
  SocketOpen \/ SocketMessage \/ SocketClose \/ SocketError \/ WatchdogFires
    \/ ReconnectTimerFires \/ Stop \/ ClockAdvance

SpecFeed == InitFeed /\ [][NextFeed]_vars

(* ------------------------- WHAT THE LAST TICK DID ---------------------- *)

ByTick == last.op = "tick"

Bought == ByTick /\ Did(last.pre, state, "BUY")
Sold == ByTick /\ Did(last.pre, state, "SELL")

\* the record of the given type the last call appended
Rec(type) ==
  LET a == Appended(last.pre, state)
  IN  a[CHOOSE i \in 1..Len(a) : a[i].type = type]

\* usd moved by the wallet rule of the given type in the last call, 0 if it did not fire
Moved(type) == IF Did(last.pre, state, type) THEN Rec(type).usd ELSE 0

CountType(trades, type) == Cardinality({i \in 1..Len(trades) : trades[i].type = type})

\* netPnl of closing pos at price under fee rate feeRate:
\* (price - entry) * qty - entryCosts - qty * price * FEE_RATE
NetPnl(pos, price, feeRate) ==
  MulDiv(pos.qty.num, price - pos.entry, pos.qty.den)
  - pos.entryCosts
  - MulDiv(MulDiv(pos.qty.num, price, pos.qty.den), feeRate, 100000)

\* netPnl of the close the last tick made
LastNet == NetPnl(last.pre.position, last.price, last.pre.config.FEE_RATE)

\* entry costs of a notional under config cfg: fee + spread + slippage
EntryFee(cfg, usd) == MulDiv(usd, cfg.FEE_RATE, 100000)
EntrySpread(cfg, usd) == MulDiv(usd, cfg.SPREAD_BP, 10000)
EntrySlippage(cfg, usd) == MulDiv(usd, cfg.SLIPPAGE_BP, 10000)
EntryCosts(cfg, usd) == EntryFee(cfg, usd) + EntrySpread(cfg, usd) + EntrySlippage(cfg, usd)

\* wallets.trading when the last tick's maybeEnter ran: after the close, the
\* sweep and the top-up of the same tick, if any
CashAtEntry ==
  IF Sold
  THEN last.pre.wallets.trading + LastNet - Moved("SWEEP") + Moved("TOPUP")
  ELSE last.pre.wallets.trading

(* --------------------------------- C1 ---------------------------------- *)

\* C1: a BUY is only ever made with no position open: the tick that bought
\* either started with position null or closed the position first, no call
\* other than a tick changes the position except hardReset (which clears it),
\* and the trade log holds exactly one more BUY than SELL while a position is
\* open and equally many otherwise.
C1_SinglePosition ==
  /\ Bought => (last.pre.position = NULL \/ Sold)
  /\ last.op \in {"updateConfig", "saveTimer"} => state.position = last.pre.position
  /\ last.op = "hardReset" => state.position = NULL
  /\ CountType(state.trades, "BUY") - CountType(state.trades, "SELL")
       = IF state.position = NULL THEN 0 ELSE 1

\* a tick of the open position's symbol that closed nothing, with trading not
\* halted, warm-up over, the cooldown elapsed and the daily cap not reached:
\* only the open position stood between that tick and a second BUY
C1_Witness ==
  /\ ByTick /\ ~Sold /\ ~Bought
  /\ last.pre.position # NULL
  /\ last.pre.position.symbol = last.symbol
  /\ state.position = last.pre.position
  /\ ~state.limits.halted
  /\ state.learnStats.ticksSeen >= state.config.WARMUP_TICKS
  /\ last.now - state.limits.lastTradeTs >= state.config.COOLDOWN_MS
  /\ state.limits.tradesToday < state.config.MAX_TRADES_PER_DAY
  /\ state.learnStats.confidence >= 550

(* --------------------------------- C2 ---------------------------------- *)

\* C2: while a position opened under symbol A is open, a tick for a symbol
\* B # A leaves the position, wallets.trading, the realized totals, the cost
\* totals and the trade log unchanged.
C2_SymbolIsolation ==
  (ByTick /\ last.pre.position # NULL /\ last.pre.position.symbol # last.symbol)
    => /\ state.position = last.pre.position
       /\ state.wallets.trading = last.pre.wallets.trading
       /\ state.realized = last.pre.realized
       /\ state.costs = last.pre.costs
       /\ state.trades = last.pre.trades

\* a tick of another symbol whose price, had it been the position's symbol,
\* would have hit the take-profit
C2_Witness ==
  /\ ByTick
  /\ last.pre.position # NULL
  /\ last.pre.position.symbol # last.symbol
  /\ (last.price - last.pre.position.entry) * 100000
       >= last.pre.config.TAKE_PROFIT_PCT * last.pre.position.entry

(* --------------------------------- C3 ---------------------------------- *)

\* C3: over a complete round trip (one tick opens, a later tick closes, no
\* sweep or top-up firing and no new entry on the closing tick) the trading
\* cash ends at cash_before_entry + netPnl, netPnl = gross - entryCosts - exitFee.
C3_RoundTripCash ==
  (Sold /\ ~Bought /\ hist.entryCash >= 0
        /\ Moved("SWEEP") = 0 /\ Moved("TOPUP") = 0)
    => /\ Rec("SELL").profit = LastNet
       /\ state.wallets.trading = hist.entryCash + LastNet

(* --------------------------------- C4 ---------------------------------- *)

\* C4 as claimed: on every tick on which maybeExit closes a position, the
\* trading cash after the tick is the trading cash before it plus netPnl.
C4_Original ==
  Sold => state.wallets.trading = last.pre.wallets.trading + LastNet

\* C4 as amended: on every tick on which maybeExit closes a position, the
\* trading cash after the tick is the trading cash before it plus netPnl,
\* minus the overflow swept to the owner wallet, plus the amount topped up
\* from the storehouse, minus the entry costs of a position opened by the
\* same tick's maybeEnter.
C4_ClosingTickCash ==
  Sold =>
    /\ Rec("SELL").profit = LastNet
    /\ state.wallets.trading
         = last.pre.wallets.trading + LastNet - Moved("SWEEP") + Moved("TOPUP")
           - (IF Bought THEN EntryCosts(last.pre.config, Rec("BUY").usd) ELSE 0)

\* a closing tick with a positive exit fee on which the overflow was swept
\* and a new position was opened
C4_Witness ==
  /\ Sold
  /\ Rec("SELL").fees > 0
  /\ Moved("SWEEP") > 0
  /\ Bought

(* --------------------------------- C5 ---------------------------------- *)

CloseReachedDrawdown ==
  /\ Sold
  /\ drawdownReached([last.pre EXCEPT !.wallets.trading = @ + LastNet])

HaltedByDrawdown(s) == s.limits.halted /\ s.limits.haltReason.tag = "max_drawdown_"

\* C6: the drawdown halt latches: a close that leaves the drawdown at or
\* above MAX_DRAWDOWN_PCT sets limits.halted, and from a state halted by the
\* drawdown every call other than hardReset (a tick, also one on a later
\* calendar day, updateConfig, the save timer) leaves it halted by the
\* drawdown and makes no BUY.
C6_DrawdownLatch ==
  /\ CloseReachedDrawdown => HaltedByDrawdown(state) /\ ~Bought
  /\ (HaltedByDrawdown(last.pre) /\ last.op \in {"tick", "updateConfig", "saveTimer"})
       => HaltedByDrawdown(state) /\ ~Bought /\ state.position = last.pre.position

\* halted by the drawdown, then a tick of a later calendar day, with no
\* position open and the cooldown elapsed: the day is rolled over and the
\* tick is still rejected for the drawdown
C6_Witness ==
  /\ ByTick
  /\ HaltedByDrawdown(last.pre)
  /\ last.pre.position = NULL
  /\ last.pre.limits.dayKey # dayKey(last.ts)
  /\ last.now - last.pre.limits.lastTradeTs >= last.pre.config.COOLDOWN_MS
  /\ state.limits.halted
  /\ state.learnStats.lastReason.tag = "max_drawdown_"

(* --------------------------------- C7 ---------------------------------- *)

C8_DailyCap ==
  /\ state.limits.tradesToday = hist.sinceReset
  /\ Bought => state.limits.tradesToday <= last.pre.config.MAX_TRADES_PER_DAY
  /\ hist.mono => \A d \in Days : hist.buys[d] <= state.config.MAX_TRADES_PER_DAY

\* the cap is reached on the tick's day and the tick, which every earlier
\* gate admitted, is rejected for it
C8_Witness ==
  /\ ByTick /\ ~Bought
  /\ hist.mono
  /\ hist.buys[dayKey(last.ts)] = state.config.MAX_TRADES_PER_DAY
  /\ state.position = NULL
  /\ state.learnStats.lastReason.tag = "max_trades_today"

(* --------------------------------- C9 ---------------------------------- *)

\* the last tick's calendar day differs from limits.dayKey as the tick found it
Rolled == ByTick /\ last.pre.limits.dayKey # dayKey(last.ts)

\* C9 as claimed: on such a tick, before exit and entry are evaluated,
\* tradesToday and the loss-streak counter are reset to 0 and dayKey is set
\* to the tick's day (after the tick: tradesToday counts the tick's own BUY,
\* the streak its own losing close).
C9_Original ==
  Rolled =>
    /\ state.limits.dayKey = dayKey(last.ts)
    /\ state.limits.tradesToday = (IF Bought THEN 1 ELSE 0)
    /\ state.streak.lossesInRow = (IF Sold /\ LastNet < 0 THEN 1 ELSE 0)

\* C9 as amended: on such a tick, before exit and entry are evaluated,
\* tradesToday is reset to 0 and dayKey is set to the tick's day; the
\* loss-streak counter is not touched by the rollover (only a close changes it).
C9_Rollover ==
  Rolled =>
    /\ state.limits.dayKey = dayKey(last.ts)
    /\ state.limits.tradesToday = (IF Bought THEN 1 ELSE 0)
    /\ state.streak.lossesInRow
         = (IF Sold THEN (IF LastNet < 0 THEN last.pre.streak.lossesInRow + 1 ELSE 0)
            ELSE last.pre.streak.lossesInRow)

\* a rollover tick that found a trade counted and a loss streak running
C9_Witness ==
  /\ Rolled
  /\ last.pre.limits.tradesToday > 0
  /\ last.pre.streak.lossesInRow > 0

(* --------------------------------- C10 --------------------------------- *)

\* the last tick left dayKey alone and tradesToday at its value plus the tick's own BUY
NoDailyReset ==
  /\ state.limits.dayKey = last.pre.limits.dayKey
  /\ state.limits.tradesToday
       = last.pre.limits.tradesToday + (IF Bought THEN 1 ELSE 0)

\* C10 as claimed: for any two ticks whose timestamps fall in the same
\* calendar day, the second tick's checkDaily changes neither dayKey nor
\* tradesToday.
C10_Original == (ByTick /\ last.seenDay) => NoDailyReset

\* C10 as amended: while the tick timestamps never decrease and hardReset is
\* not called in between, for any two ticks whose timestamps fall in the same
\* calendar day the second tick's checkDaily changes neither dayKey nor
\* tradesToday.
C10_RolloverIdempotent == (ByTick /\ last.seenDay /\ hist.mono) => NoDailyReset

\* a second tick of a calendar day on which a trade has been counted
C10_Witness ==
  /\ ByTick /\ last.seenDay /\ hist.mono
  /\ last.pre.limits.tradesToday > 0

(* --------------------------------- C11 --------------------------------- *)

\* the last tick was of the open position's own symbol
OwnTick ==
  ByTick /\ last.pre.position # NULL /\ last.pre.position.symbol = last.symbol

\* (price - entry) / entry >= TAKE_PROFIT_PCT on the last tick
ChangeAtTP ==
  (last.price - last.pre.position.entry) * 100000
    >= last.pre.config.TAKE_PROFIT_PCT * last.pre.position.entry

\* (price - entry) / entry <= -STOP_LOSS_PCT on the last tick
ChangeAtSL ==
  (last.price - last.pre.position.entry) * 100000
    <= (0 - last.pre.config.STOP_LOSS_PCT) * last.pre.position.entry

SecondLoss == Sold /\ LastNet < 0 /\ last.pre.streak.lossesInRow = 1

\* the time of the latest SELL in the trade log (0 if there is none)
LatestSellTs ==
  LET sells == {i \in 1..Len(state.trades) : state.trades[i].type = "SELL"}
  IN  IF sells = {} THEN 0
      ELSE state.trades[CHOOSE i \in sells : \A j \in sells : j <= i].time

RiskPct(cfg, streak) ==
  Max(500,
      Min(cfg.MAX_RISK_PCT,
          cfg.BASE_RISK_PCT
            - Min(2000 * streak.lossesInRow, (cfg.BASE_RISK_PCT * 8) \div 10)
            + Min(1000 * streak.winsInRow, cfg.MAX_RISK_PCT - cfg.BASE_RISK_PCT)))

C13_Cooldown ==
  (Bought /\ last.pre.limits.lastTradeTs > 0)
    => last.ts - last.pre.limits.lastTradeTs >= last.pre.config.COOLDOWN_MS

(* --------------------------------- C14 --------------------------------- *)

\* C14: no BUY is made on a tick on which ticksSeen, after the tick's
\* increment, is below WARMUP_TICKS; hardReset restarts the count at 0 with no
\* position and every processed tick counts once, so the first
\* WARMUP_TICKS - 1 ticks after a hardReset open no position.
C14_Warmup ==
  /\ Bought => state.learnStats.ticksSeen >= last.pre.config.WARMUP_TICKS
  /\ ByTick => state.learnStats.ticksSeen = last.pre.learnStats.ticksSeen + 1
  /\ (ByTick /\ state.learnStats.ticksSeen < last.pre.config.WARMUP_TICKS
        /\ last.pre.position = NULL)
       => state.position = NULL
  /\ last.op = "hardReset"
       => state.learnStats.ticksSeen = 0 /\ state.position = NULL

\* a tick still warming up that every gate but the warm-up gate admits:
\* not halted, flat, out of cooldown, under the daily cap, confident, with edge
C14_Witness ==
  /\ ByTick
  /\ state.learnStats.ticksSeen < last.pre.config.WARMUP_TICKS
  /\ ~state.limits.halted
  /\ last.pre.position = NULL
  /\ state.position = NULL
  /\ last.now - state.limits.lastTradeTs >= state.config.COOLDOWN_MS
  /\ state.limits.tradesToday < state.config.MAX_TRADES_PER_DAY
  /\ state.learnStats.confidence >= 550
  /\ Abs(state.learnStats.trendEdge) >= state.config.MIN_EDGE
  /\ state.config.TAKE_PROFIT_PCT
       > 2 * state.config.FEE_RATE
           + 10 * state.config.SPREAD_BP + 10 * state.config.SLIPPAGE_BP

(* --------------------------------- C15 --------------------------------- *)

\* C15: on every tick of the open position's symbol the position is closed
\* exactly when the price change (price - entry) / entry is >= TAKE_PROFIT_PCT
\* or <= -STOP_LOSS_PCT; the close is tagged take_profit when the first
\* condition holds and stop_loss otherwise, and appends exactly one SELL, of
\* the position's symbol and quantity at the tick's price.
C15_ExitRule ==
  /\ OwnTick => (Sold <=> (ChangeAtTP \/ ChangeAtSL))
  /\ Sold =>
       /\ OwnTick
       /\ CountType(Appended(last.pre, state), "SELL") = 1
       /\ Rec("SELL").note.tag = IF ChangeAtTP THEN "take_profit" ELSE "stop_loss"
       /\ Rec("SELL").symbol = last.pre.position.symbol
       /\ Rec("SELL").qty = last.pre.position.qty
       /\ Rec("SELL").price = last.price
       /\ state.position = NULL \/ Bought

\* a close at exactly the take-profit boundary, after an earlier stop-loss close
C15_Witness ==
  /\ Sold
  /\ (last.price - last.pre.position.entry) * 100000
       = last.pre.config.TAKE_PROFIT_PCT * last.pre.position.entry
  /\ Rec("SELL").note.tag = "take_profit"
  /\ \E i \in 1..Len(last.pre.trades) :
       /\ last.pre.trades[i].type = "SELL"
       /\ last.pre.trades[i].note.tag = "stop_loss"

(* --------------------------------- C16 --------------------------------- *)

\* C16: every close increments exactly one of realized.wins and
\* realized.losses, wins when netPnl >= 0 and losses otherwise; the
\* consecutive-loss counter goes up by one on a loss and back to zero on a
\* win, and realized.net increases by exactly netPnl.
C16_WinLoss ==
  Sold =>
    /\ state.realized.net = last.pre.realized.net + LastNet
    /\ Rec("SELL").profit = LastNet
    /\ LastNet >= 0 =>
         /\ state.realized.wins = last.pre.realized.wins + 1
         /\ state.realized.losses = last.pre.realized.losses
         /\ state.streak.lossesInRow = 0
    /\ LastNet < 0 =>
         /\ state.realized.losses = last.pre.realized.losses + 1
         /\ state.realized.wins = last.pre.realized.wins
         /\ state.streak.lossesInRow = last.pre.streak.lossesInRow + 1

\* a winning close that ends a loss streak, after which both counters are positive
C16_Witness ==
  /\ Sold
  /\ LastNet >= 0
  /\ last.pre.streak.lossesInRow >= 1
  /\ state.streak.lossesInRow = 0
  /\ state.realized.wins >= 1
  /\ state.realized.losses >= 1

(* --------------------------------- C17 --------------------------------- *)

\* C17: every BUY is made on a tick whose freshly computed signals have
\* confidence >= 0.55 (the minimum entry confidence), |trendEdge| >= MIN_EDGE
\* and volatilityNorm <= 0.85; no position is opened on a tick whose
\* volatilityNorm is above 0.85.
C17_EntrySignals ==
  /\ Bought =>
       /\ state.learnStats.confidence >= 550
       /\ Abs(state.learnStats.trendEdge) >= last.pre.config.MIN_EDGE
       /\ state.learnStats.volatility <= 850
  /\ (ByTick /\ state.learnStats.volatility > 850 /\ state.position # NULL)
       => state.position = last.pre.position

\* a BUY on a tick with a noisy but admissible signal: volatility is positive
\* and the confidence is below its maximum
C17_Witness ==
  /\ Bought
  /\ state.learnStats.volatility > 0
  /\ state.learnStats.confidence < 1000
  /\ state.learnStats.confidence >= 550

(* --------------------------------- C18 --------------------------------- *)

\* the last tick made no trade: maybeExit closed nothing and maybeEnter
\* rejected the entry
Rejected == ByTick /\ ~Bought /\ ~Sold

\* C18: a tick whose entry is rejected leaves limits.halted, position,
\* wallets and ledger as they were, and limits.halted is only ever set by the
\* drawdown check.
C18_RejectionOnlyWaits ==
  /\ Rejected =>
       /\ state.limits.halted = last.pre.limits.halted
       /\ state.position = last.pre.position
       /\ state.wallets = last.pre.wallets
       /\ state.realized = last.pre.realized
  /\ state.limits.halted => HaltedByDrawdown(state)

(* --------------------------------- C19 --------------------------------- *)

\* the tags computeSignals gives its reason
SignalTags ==
  {"collecting_more_data", "warmup", "trend_unclear", "too_noisy", "edge_detected"}

\* trading was halted when the last tick reached maybeEnter
HaltedAtEntry == last.pre.limits.halted \/ CloseReachedDrawdown

\* tradesToday when the last tick reached maybeEnter
TradesTodayAtEntry ==
  IF last.pre.limits.dayKey = dayKey(last.ts) THEN last.pre.limits.tradesToday ELSE 0

\* the first failing gate of the last tick, for the gates up to the
\* cost-profitability check; "later" if all of them passed
FirstFailingGate ==
  IF HaltedAtEntry THEN "halted"
  ELSE IF state.position # NULL THEN "position"
  ELSE IF state.learnStats.ticksSeen < last.pre.config.WARMUP_TICKS THEN "warmup"
  ELSE IF last.now - last.pre.limits.lastTradeTs < last.pre.config.COOLDOWN_MS THEN "cooldown"
  ELSE IF TradesTodayAtEntry >= last.pre.config.MAX_TRADES_PER_DAY THEN "cap"
  ELSE IF last.pre.config.TAKE_PROFIT_PCT
            <= 2 * last.pre.config.FEE_RATE
                 + 10 * last.pre.config.SPREAD_BP + 10 * last.pre.config.SLIPPAGE_BP
       THEN "cost"
  ELSE "later"

\* C19: after every tick on which the entry is rejected, learnStats.decision
\* is WAIT and learnStats.lastReason is the reason code of the first failing
\* gate in pipeline order (halted, position-open, warmup, cooldown, daily cap,
\* cost-profitability, signal thresholds); it is never left at the signal tag
\* of a gate that did not reject.
C19_FirstFailingGate ==
  (ByTick /\ ~Bought) =>
    /\ state.learnStats.decision = "WAIT"
    /\ FirstFailingGate = "halted"
         => state.learnStats.lastReason = state.limits.haltReason
    /\ FirstFailingGate = "position"
         => state.learnStats.lastReason.tag \notin SignalTags
    /\ FirstFailingGate = "warmup"
         => state.learnStats.lastReason.tag \in {"warmup", "collecting_more_data"}
    /\ FirstFailingGate = "cooldown"
         => state.learnStats.lastReason.tag = "cooldown"
    /\ FirstFailingGate = "cap"
         => state.learnStats.lastReason.tag = "max_trades_today"
    /\ FirstFailingGate = "cost"
         => state.learnStats.lastReason.tag = "tp_too_small_for_fees"
    /\ FirstFailingGate = "later"
         => state.learnStats.lastReason.tag
              \in {"confidence_low", "trend_below_threshold",
                   "trade_too_small_for_net_tp", "wallet_too_low_for_fees"}

(* --------------------------------- C20 --------------------------------- *)

\* C20: a tick whose price is NaN or not finite leaves position, wallets,
\* realized and cost totals, limits, trade log and ticksSeen unchanged: it
\* leaves the whole state as it was, the running flag included, so that
\* later valid ticks are processed as if it had not arrived.
C20_NonFiniteIgnored ==
  last.op = "tickNonFinite" =>
    /\ state.position = last.pre.position
    /\ state.wallets = last.pre.wallets
    /\ state.realized = last.pre.realized
    /\ state.costs = last.pre.costs
    /\ state.limits = last.pre.limits
    /\ state.trades = last.pre.trades
    /\ state.learnStats.ticksSeen = last.pre.learnStats.ticksSeen
    /\ state = last.pre
    /\ state.running

\* a non-finite tick of the open position's symbol, stamped on a calendar
\* day after the one the limits are on
C20_Witness ==
  /\ last.op = "tickNonFinite"
  /\ state.position # NULL
  /\ state.position.symbol = last.symbol
  /\ dayKey(last.ts) # state.limits.dayKey
  /\ state.limits.tradesToday >= 1

(* --------------------------------- C21 --------------------------------- *)

\* the fields of the config that hold numbers
NumericFields == DOMAIN defaultConfig \ {"STATE_FILE"}

\* C21: updateConfig accepts only known numeric fields: after every call, no
\* key that is not a config field is in the config, and every numeric field
\* holds a number, whatever the patch held for it.
C21_Whitelist ==
  last.op = "updateConfig" =>
    /\ DOMAIN state.config \subseteq DOMAIN defaultConfig
    /\ \A k \in NumericFields : state.config[k].t = "number"

(* --------------------------------- C22 --------------------------------- *)

\* C22: after every updateConfig call, 0.005 <= BASE_RISK_PCT <= 0.5 and
\* BASE_RISK_PCT <= MAX_RISK_PCT <= 0.9.
C22_RiskBounds ==
  last.op = "updateConfig" =>
    /\ state.config.BASE_RISK_PCT.t = "number"
    /\ state.config.MAX_RISK_PCT.t = "number"
    /\ 500 <= state.config.BASE_RISK_PCT.v
    /\ state.config.BASE_RISK_PCT.v <= 50000
    /\ state.config.BASE_RISK_PCT.v <= state.config.MAX_RISK_PCT.v
    /\ state.config.MAX_RISK_PCT.v <= 90000

(* --------------------------------- C23 --------------------------------- *)

\* C23: every BUY's notional equals clamp(trading cash * currentRiskPct,
\* MIN_USD_PER_TRADE, MAX_USD_PER_TRADE) and stays below the trading cash
\* available at entry (cash minus a positive buffer), so that an entry whose
\* minimum notional exceeds the cash is rejected.
C23_NotionalWithinCash ==
  Bought =>
    /\ Rec("BUY").usd
         = Min(Max(MulDiv(CashAtEntry, RiskPct(last.pre.config, state.streak), 100000),
                   last.pre.config.MIN_USD_PER_TRADE),
               last.pre.config.MAX_USD_PER_TRADE)
    /\ Rec("BUY").usd < CashAtEntry

(* --------------------------------- C24 --------------------------------- *)

C25_Coalesced ==
  /\ timers <= 1
  /\ saveTimer <=> timers = 1
  /\ saveTimer => calls >= 1
  /\ last.op = "saveTimer" =>
       /\ last.calls >= 1
       /\ timers = 0
       /\ calls = 0
       /\ state = last.pre
       /\ last.mode = "ok" => disk = safe(state)

\* the timeout fires after three scheduleSave calls, during which a position
\* was opened, and its one write holds the latest state
C25_Witness ==
  /\ last.op = "saveTimer"
  /\ last.calls >= 3
  /\ last.mode = "ok"
  /\ disk = safe(state)
  /\ timers = 0
  /\ state.learnStats.ticksSeen >= 2
  /\ state.position # NULL

(* --------------------------------- C26 --------------------------------- *)

\* the last step ran saveNow or died in it
RanSaveNow == last.op \in {"saveTimer", "hardReset", "restart"}

\* the documents the last run of saveNow could have been writing
WrittenDocs ==
  IF last.op = "saveTimer" THEN {safe(last.pre)}
  ELSE IF last.op = "hardReset" THEN {safe(state)}
  ELSE {safe(last.pre), safe(hardReset(last.pre, last.now))}

\* C26: wherever saveNow stops, by an exception or by the death of the
\* process, STATE_FILE holds the complete previous document or the complete
\* new one, never a part of a document; only STATE_FILE.tmp can hold a part.
C26_AtomicReplace ==
  RanSaveNow =>
    /\ disk = last.disk \/ disk \in WrittenDocs
    /\ disk = PARTIAL => last.disk = PARTIAL
    /\ last.mode = "ok" => disk \in WrittenDocs
    /\ last.mode \in {"throwsInWrite", "throwsAtRename"} => disk = last.disk

\* the process died while writeFileSync was writing: STATE_FILE.tmp holds a
\* part, STATE_FILE still holds the previous snapshot, which differs from the
\* state that was being saved, and the restart loads it
C26_Witness ==
  /\ last.op = "restart"
  /\ last.mode = "throwsInWrite"
  /\ tmp = PARTIAL
  /\ disk = last.disk
  /\ loadNowReturns(disk)
  /\ disk # safe(last.pre)
  /\ state = loadNow(disk, last.now)

(* --------------------------------- C27 --------------------------------- *)

\* C27: a write that fails at any step of saveNow is swallowed: the timer
\* callback and hardReset complete as they do when the write succeeds, the
\* in-memory state is what it would be anyway, the marker is clear after the
\* timer callback and is never set without a pending timer, every tick leaves
\* a write scheduled, and the state a tick produces is a function of the
\* in-memory state and the tick's arguments alone, whatever the files hold.
C27_FailedWriteSwallowed ==
  /\ saveTimer <=> timers = 1
  /\ last.op = "saveTimer" =>
       /\ state = last.pre
       /\ ~saveTimer
       /\ last.mode # "ok" => disk = last.disk
  /\ last.op = "hardReset" =>
       /\ state = defaultState(last.now)
       /\ saveTimer = last.marker
       /\ last.mode # "ok" => disk = last.disk
  /\ ByTick =>
       /\ saveTimer
       /\ state = tick(last.pre, last.symbol, last.price, last.ts, last.now)

\* a write failed inside writeFileSync, the marker was cleared, and the tick
\* that followed armed a new timer
C27_Witness ==
  /\ ByTick
  /\ tmp = PARTIAL
  /\ calls = 1
  /\ saveTimer
  /\ timers = 1

(* --------------------------------- C28 --------------------------------- *)

\* the process has just started: `state` is what the load at the end of the
\* module's top level left
JustStarted == last.op \in {"init", "restart"}

\* C28: when STATE_FILE is missing or holds text JSON.parse rejects, loadNow
\* returns false and the engine starts from defaultState(), as it does on a
\* first start; when the file holds a document, the engine starts from
\* what loadNow makes of it.
C28_MissingOrUnparseable ==
  JustStarted =>
    /\ ~loadNowReturns(disk) => state = defaultState(last.now)
    /\ loadNowReturns(disk) => state = loadNow(disk, last.now)

\* the engine had moved away from the defaults, STATE_FILE held a part of a
\* document, and the restarted engine is at the defaults
C28_Witness ==
  /\ last.op = "restart"
  /\ disk = PARTIAL
  /\ last.pre # defaultState(last.now)
  /\ state = defaultState(last.now)

(* --------------------------------- C29 --------------------------------- *)

\* the fields loadNow merges one level down
NestedFields ==
  {"wallets", "realized", "costs", "learnStats", "limits", "config", "streak", "buf"}

\* the engine has just started from a document loadNow accepted
JustLoaded == JustStarted /\ loadNowReturns(disk)

\* field k of the document, or the empty object when the document lacks it
DocField(k) == IF k \in DOMAIN disk THEN disk[k] ELSE <<>>

\* field f of got is the document's when the document has it, else the default
BackFilled(got, doc, base, f) ==
  /\ f \in DOMAIN got
  /\ got[f] = IF f \in DOMAIN doc THEN doc[f] ELSE base[f]

\* the claim as stated: every field of the loaded state, at the top level and
\* inside the eight merged objects, is the persisted one when the document
\* has it and the default otherwise
C29_Original ==
  JustLoaded =>
    /\ \A k \in ((DOMAIN defaultState(last.now)) \cup (DOMAIN disk)) \ NestedFields :
         BackFilled(state, disk, defaultState(last.now), k)
    /\ \A k \in NestedFields :
         \A f \in (DOMAIN defaultState(last.now)[k]) \cup (DOMAIN DocField(k)) :
           BackFilled(state[k], DocField(k), defaultState(last.now)[k], f)

\* limits.dayKey as merged from the document and the defaults
MergedDayKey ==
  IF "dayKey" \in DOMAIN DocField("limits") THEN disk.limits.dayKey
  ELSE dayKey(last.now)

\* C29 (amended): after loadNow accepted a document, every field at the top
\* level other than pnl, and every field inside wallets, realized, costs,
\* learnStats, limits, config, streak and buf other than limits.dayKey and
\* limits.tradesToday, is the persisted one when the document has it and the
\* default otherwise; pnl is the loaded realized.net; limits.dayKey and
\* limits.tradesToday follow the same rule when the merged dayKey is the day
\* of the load, and are that day and 0 when it is not.
C29_BackFill ==
  JustLoaded =>
    /\ \A k \in ((DOMAIN defaultState(last.now)) \cup (DOMAIN disk))
                  \ (NestedFields \cup {"pnl"}) :
         BackFilled(state, disk, defaultState(last.now), k)
    /\ \A k \in NestedFields :
         \A f \in ((DOMAIN defaultState(last.now)[k]) \cup (DOMAIN DocField(k)))
                    \ (IF k = "limits" THEN {"dayKey", "tradesToday"} ELSE {}) :
           BackFilled(state[k], DocField(k), defaultState(last.now)[k], f)
    /\ state.pnl = state.realized.net
    /\ IF MergedDayKey = dayKey(last.now)
       THEN /\ BackFilled(state.limits, DocField("limits"),
                          defaultState(last.now).limits, "dayKey")
            /\ BackFilled(state.limits, DocField("limits"),
                          defaultState(last.now).limits, "tradesToday")
       ELSE /\ state.limits.dayKey = dayKey(last.now)
            /\ state.limits.tradesToday = 0

\* a document of the older schema was loaded on its own day: wallets, streak
\* and config, which it lacks, are the defaults; realized.net and the limits,
\* which it has, are its own; realized.grossProfit, which it lacks inside an
\* object it has, is the default; its own cashBalance is kept
C29_Witness ==
  /\ JustLoaded
  /\ disk = OldSnapshot
  /\ state.wallets = defaultState(last.now).wallets
  /\ state.config = defaultConfig
  /\ state.realized.net = OldSnapshot.realized.net
  /\ state.realized.grossProfit = 0
  /\ state.limits.tradesToday = OldSnapshot.limits.tradesToday
  /\ state.cashBalance = OldSnapshot.cashBalance

(* --------------------------------- C30 --------------------------------- *)

\* saveNow completed on the state the engine had, the process ended, and the
\* new process loaded the document at the same reading of the wall clock
SavedThenLoaded ==
  /\ last.op = "restart"
  /\ last.mode = "ok"
  /\ disk = safe(last.pre)

\* C30: saveNow followed by loadNow on the same calendar day reproduces
\* position, wallets, realized totals, cost totals, config and the limits
\* tradesToday, lastTradeTs, halted and haltReason; on any load tradesToday
\* is the persisted count or 0 and the halted flag is the persisted one.
C30_RoundTrip ==
  /\ SavedThenLoaded =>
       /\ state.position = last.pre.position
       /\ state.wallets = last.pre.wallets
       /\ state.realized = last.pre.realized
       /\ state.costs = last.pre.costs
       /\ state.config = last.pre.config
       /\ state.limits.tradesToday = last.pre.limits.tradesToday
       /\ state.limits.lastTradeTs = last.pre.limits.lastTradeTs
       /\ state.limits.halted = last.pre.limits.halted
       /\ state.limits.haltReason = last.pre.limits.haltReason
  /\ JustLoaded =>
       /\ state.limits.halted = disk.limits.halted
       /\ state.limits.tradesToday \in {0, disk.limits.tradesToday}

(* --------------------------------- C31 --------------------------------- *)

\* the buffer of a symbol in a state, empty when the state has none for it
BufOf(s, symbol) == IF symbol \in DOMAIN s.buf THEN s.buf[symbol] ELSE <<>>

\* C31: no buffer is longer than 60; a tick with a finite price appends the
\* price to its symbol's buffer, evicting from the front what exceeds 60, so
\* that the buffer is the last min(n, 60) prices in arrival order; the
\* buffers of the other symbols are left as they were; a tick whose price is
\* not finite changes no buffer.
C31_PriceBuffer ==
  /\ \A k \in DOMAIN state.buf : Len(state.buf[k]) <= BUF_MAX
  /\ ByTick =>
       /\ state.buf[last.symbol]
            = Last(Append(BufOf(last.pre, last.symbol), last.price), BUF_MAX)
       /\ \A k \in (DOMAIN state.buf) \ {last.symbol} :
            k \in DOMAIN last.pre.buf /\ state.buf[k] = last.pre.buf[k]
  /\ last.op = "tickNonFinite" => state.buf = last.pre.buf

\* the buffer was full before the tick: the oldest price was evicted and the
\* tick's price is the newest of 60
C31_Witness ==
  /\ ByTick
  /\ Len(last.pre.buf[last.symbol]) = BUF_MAX
  /\ Len(state.buf[last.symbol]) = BUF_MAX
  /\ state.buf[last.symbol][BUF_MAX] = last.price
  /\ state.buf[last.symbol][1] = last.pre.buf[last.symbol][2]
  /\ state.buf[last.symbol][1] # last.pre.buf[last.symbol][1]

(* --------------------------------- C32 --------------------------------- *)

\* position, ledger, limits and the BUY/SELL records of a state
Outcome(s) ==
  [position |-> s.position, wallets |-> s.wallets, realized |-> s.realized,
   costs |-> s.costs, limits |-> s.limits, trades |-> s.trades]

\* C32: what a tick with a given (symbol, price, timestamp) makes of a given
\* state is the same at every reading of the wall clock at which the tick
\* could have been processed.
C32_DrivenByTicksOnly ==
  ByTick =>
    \A n \in Times :
      Outcome(tick(last.pre, last.symbol, last.price, last.ts, n)) = Outcome(state)

(* --------------------------------- C33 --------------------------------- *)

\* C33: no tick both closes the position and opens a new one: the records a
\* tick adds to the trade log never hold a SELL and a BUY together.
C33_ExitOrEntry ==
  ByTick => ~(Did(last.pre, state, "SELL") /\ Did(last.pre, state, "BUY"))

(* --------------------------------- C34 --------------------------------- *)

\* the last operation was one that changes the state and calls scheduleSave
Mutated == last.op \in {"tick", "updateConfig"}

\* C34: provided every timeout that is due runs and its write succeeds, each
\* tick and each updateConfig is followed by a moment at which STATE_FILE
\* holds the in-memory state, its trade log cut to the last 800 records;
\* a mutation made while a timeout was pending is covered by that timeout.
C34_EventuallyPersisted == Mutated ~> (disk = safe(state))

\* several mutations were made while one timeout was pending, and the write
\* of that timeout stored the state they led to
C34_Witness ==
  /\ last.op = "saveTimer"
  /\ last.calls >= 2
  /\ last.disk # disk
  /\ disk = safe(state)
  /\ timers = 0

(* --------------------------------- C35 --------------------------------- *)

\* C35: once DB_PATH holds a complete document, no call of readDb, writeDb
\* or updateDb, completed or cut short by the death of the process, leaves
\* it holding a part of a document.
C35_DbNeverPartial ==
  (last.op \in {"readDb", "writeDb", "updateDb"}
     /\ last.disk # NO_FILE /\ last.disk # PARTIAL)
    => disk # PARTIAL

(* --------------------------------- C36 --------------------------------- *)

\* the last call was a tick of the Step-10 executor past its warm-up
ByTickStep10 ==
  /\ last.op = "tickStep10"
  /\ last.pre.learnStats.ticksSeen + 1 >= WARMUP_TICKS

C38_TradingNeverNegative ==
  /\ state.wallets.trading >= 0
  /\ Sold => last.pre.wallets.trading + Rec("SELL").profit >= 0

\* a stop-loss close at a price at least 10% below the entry price
C38_Witness ==
  /\ Sold
  /\ Rec("SELL").note.tag = "stop_loss"
  /\ last.price * 10 <= last.pre.position.entry * 9
  /\ Rec("SELL").profit < 0

\* trading + storehouse + owner
walletTotal(s) == s.wallets.trading + s.wallets.storehouse + s.wallets.owner

\* C39: the sum of the three wallets changes only by minus the entry costs
\* of an entry and plus netPnl of a close; sweepOverflow and
\* maybeTopUpFromStorehouse move funds between wallets without changing
\* the sum, what leaves one wallet arrives in the other, and the storehouse
\* wallet is never negative.
C39_TransfersConserve ==
  /\ state.wallets.storehouse >= 0
  /\ ByTick =>
       /\ walletTotal(state) - walletTotal(last.pre)
            = (IF Sold THEN LastNet ELSE 0)
              - (IF Bought THEN EntryCosts(last.pre.config, Rec("BUY").usd) ELSE 0)
       /\ state.wallets.owner = last.pre.wallets.owner + Moved("SWEEP")
       /\ state.wallets.storehouse = last.pre.wallets.storehouse - Moved("TOPUP")
  /\ ~ByTick => state.wallets = last.pre.wallets

\* a tick that closed a position, swept the overflow to the owner wallet and
\* topped the trading wallet up from the storehouse
C39_Witness ==
  /\ Sold
  /\ Moved("SWEEP") > 0
  /\ Moved("TOPUP") > 0

(* --------------------------------- C40 --------------------------------- *)

\* the closure is quiet: no reconnect timeout and no watchdog interval is
\* pending, every socket the feed created is closing or closed, and an event
\* that came after stop() called neither connect() nor onTick
Quiesced ==
  /\ state.timeouts = {}
  /\ state.intervals = {}
  /\ \A i \in DOMAIN state.sockets :
       state.sockets[i].readyState \in {"closing", "closed"}
  /\ last.pre.closedByUs => (~last.connect /\ ~last.tick)

\* C40: once stop() has been called, connect() is never invoked again, no
\* reconnect timer or watchdog remains pending, the current socket has been
\* closed, and onTick is never called again, whatever socket events, watchdog
\* firings and timer expiries come before and after.
C40_ShutdownQuiesces == state.closedByUs => Quiesced

\* the same for the current file alone
CurrentFileQuiesces ==
  (state.version = "current" /\ state.closedByUs) => Quiesced

====
